---------------------------- MODULE Spec2Model ----------------------------
(***************************************************************************)
(* Model of the headache-vault-demo core: the medication name matcher      *)
(* (src/medication_matcher.py) and the policy search with national and     *)
(* drug-class fallback (src/headache_vault_demo.py).                       *)
(*                                                                         *)
(* Strings are sequences of one-character strings, so that the regular     *)
(* expressions, str.lower, str.split and difflib's similarity ratio are    *)
(* computed character by character the way the Python code computes them.  *)
(***************************************************************************)
EXTENDS Integers, Sequences, FiniteSets, TLC

VARIABLES
  medication_db,    \* MedicationMatcher.medication_db: the records, in dict order
  alias_to_key,     \* MedicationMatcher.alias_to_key
  generic_to_key,   \* MedicationMatcher.generic_to_key
  brand_to_key,     \* MedicationMatcher.brand_to_key
  pc,               \* "idle", or "returned" when `call` holds a finished call
  call,             \* the call in progress: its name, arguments and result
  session_state,    \* st.session_state: the keys present and their values
  script            \* what the last run of the Streamlit script did

(***************************************************************************)
(* Characters and the Python string primitives the code relies on.         *)
(***************************************************************************)

Digits == {"0","1","2","3","4","5","6","7","8","9"}

LowerLetters ==
  {"a","b","c","d","e","f","g","h","i","j","k","l","m",
   "n","o","p","q","r","s","t","u","v","w","x","y","z"}

\* str.lower on one character: the ASCII upper-case letters are mapped,
\* every other character is left alone.
LowerMap ==
  ("A" :> "a") @@ ("B" :> "b") @@ ("C" :> "c") @@ ("D" :> "d") @@
  ("E" :> "e") @@ ("F" :> "f") @@ ("G" :> "g") @@ ("H" :> "h") @@
  ("I" :> "i") @@ ("J" :> "j") @@ ("K" :> "k") @@ ("L" :> "l") @@
  ("M" :> "m") @@ ("N" :> "n") @@ ("O" :> "o") @@ ("P" :> "p") @@
  ("Q" :> "q") @@ ("R" :> "r") @@ ("S" :> "s") @@ ("T" :> "t") @@
  ("U" :> "u") @@ ("V" :> "v") @@ ("W" :> "w") @@ ("X" :> "x") @@
  ("Y" :> "y") @@ ("Z" :> "z")

UpperLetters == DOMAIN LowerMap

\* \s of the re module (and the separators of str.split())
IsSpace(c) == c \in {" ", "\n", "\t"}

\* \d
IsDigit(c) == c \in Digits

\* \w, the characters on the word side of \b
IsWordChar(c) == c \in LowerLetters \/ c \in UpperLetters \/ c \in Digits \/ c = "_"

\* text.lower()
Lower(s) ==
  [i \in 1..Len(s) |-> IF s[i] \in UpperLetters THEN LowerMap[s[i]] ELSE s[i]]

\* s[i:i+len(w)] == w  (1-based i)
HasAt(s, i, w) ==
  /\ i + Len(w) - 1 <= Len(s)
  /\ \A p \in 1..Len(w) : s[i + p - 1] = w[p]

\* `sub in s`
Contains(s, sub) == \E i \in 1..(Len(s) - Len(sub) + 1) : HasAt(s, i, sub)

Min(S) == CHOOSE x \in S : \A y \in S : x <= y

\* \b at the position before s[e], when s[e-1] is a word character
WordEndsAt(s, e) == e > Len(s) \/ ~IsWordChar(s[e])

\* ".*$" started before s[e] (no re.DOTALL, no re.MULTILINE): "." stops at a
\* line break and "$" holds only at the end of the text or before a line
\* break that is the text's last character.
RestOfLineIsEnd(s, e) == \A p \in e..Len(s) : s[p] = "\n" => p = Len(s)

\* What is left of s when a match of "...<.*$>" that starts at s[i] is
\* replaced by '': the text before it, and the final line break that "$"
\* stopped in front of.
CutFrom(s, i) ==
  SubSeq(s, 1, i - 1) \o (IF s[Len(s)] = "\n" THEN <<"\n">> ELSE <<>>)

\* re.sub(pattern, '', s) for a pattern that ends in ".*$", given the
\* positions at which it matches: the leftmost match is removed, and as it
\* reaches the end of the text there is no second one.
CutAtFirst(s, starts) == IF starts = {} THEN s ELSE CutFrom(s, Min(starts))

(***************************************************************************)
(* MedicationMatcher.normalize_input                                       *)
(***************************************************************************)

\* (mg|mcg|ml|g|units?)
DosageUnits ==
  { <<"m","g">>, <<"m","c","g">>, <<"m","l">>, <<"g">>,
    <<"u","n","i","t">>, <<"u","n","i","t","s">> }

\* (tablets?|capsules?|injection|subcutaneous|oral|daily|bid|tid|qd|prn)
SuffixWords ==
  { <<"t","a","b","l","e","t">>, <<"t","a","b","l","e","t","s">>,
    <<"c","a","p","s","u","l","e">>, <<"c","a","p","s","u","l","e","s">>,
    <<"i","n","j","e","c","t","i","o","n">>,
    <<"s","u","b","c","u","t","a","n","e","o","u","s">>,
    <<"o","r","a","l">>, <<"d","a","i","l","y">>, <<"b","i","d">>,
    <<"t","i","d">>, <<"q","d">>, <<"p","r","n">>}

\* s[i..k-1] matches \d+\.?\d*
IsNumberSpan(s, i, k) ==
  \E d \in (i + 1)..k :
     /\ \A p \in i..(d - 1) : IsDigit(s[p])
     /\ \/ d = k
        \/ /\ s[d] = "."
           /\ \A p \in (d + 1)..(k - 1) : IsDigit(s[p])

\* r'\d+\.?\d*\s*(mg|mcg|ml|g|units?)\b.*$' matches starting at s[i]
DosageMatchAt(s, i) ==
  /\ IsDigit(s[i])
  /\ \E k \in (i + 1)..(Len(s) + 1) :
        /\ IsNumberSpan(s, i, k)
        /\ \E u \in k..Len(s) :
              /\ \A p \in k..(u - 1) : IsSpace(s[p])
              /\ \E w \in DosageUnits :
                    /\ HasAt(s, u, w)
                    /\ WordEndsAt(s, u + Len(w))
                    /\ RestOfLineIsEnd(s, u + Len(w))

\* re.sub(r'\d+\.?\d*\s*(mg|mcg|ml|g|units?)\b.*$', '', text)
RemoveDosage(s) == CutAtFirst(s, {i \in 1..Len(s) : DosageMatchAt(s, i)})

\* r'\s+(tablets?|...|prn)\b.*$' matches starting at s[i]
SuffixMatchAt(s, i) ==
  /\ IsSpace(s[i])
  /\ \E u \in (i + 1)..Len(s) :
        /\ \A p \in i..(u - 1) : IsSpace(s[p])
        /\ \E w \in SuffixWords :
              /\ HasAt(s, u, w)
              /\ WordEndsAt(s, u + Len(w))
              /\ RestOfLineIsEnd(s, u + Len(w))

\* re.sub(r'\s+(tablets?|...|prn)\b.*$', '', text)
RemoveSuffix(s) == CutAtFirst(s, {i \in 1..Len(s) : SuffixMatchAt(s, i)})

\* re.sub(r'\([^)]*\)', '', text): left to right, each "(" is removed with
\* everything up to the next ")"; a "(" with no ")" after it stays.
RECURSIVE RemoveParenthetical(_)
RemoveParenthetical(s) ==
  LET opens == {i \in 1..Len(s) : s[i] = "("}
  IN  IF opens = {} THEN s
      ELSE LET i == Min(opens)
               closes == {j \in (i + 1)..Len(s) : s[j] = ")"}
           IN  IF closes = {} THEN s
               ELSE SubSeq(s, 1, i - 1)
                      \o RemoveParenthetical(SubSeq(s, Min(closes) + 1, Len(s)))

\* ' '.join(text.split()): runs of white space become one blank, leading and
\* trailing white space goes.
JoinSplit(s) ==
  LET idx  == [p \in 1..Len(s) |-> p]
      Keep(p) == \/ ~IsSpace(s[p])
                 \/ /\ p > 1
                    /\ ~IsSpace(s[p - 1])
                    /\ \E q \in (p + 1)..Len(s) : ~IsSpace(s[q])
      kept == SelectSeq(idx, Keep)
  IN  [k \in 1..Len(kept) |-> IF IsSpace(s[kept[k]]) THEN " " ELSE s[kept[k]]]

\* text.replace('-', ' ')
ReplaceHyphens(s) == [p \in 1..Len(s) |-> IF s[p] = "-" THEN " " ELSE s[p]]

\* text.strip()
RECURSIVE Strip(_)
Strip(s) ==
  IF s = <<>> THEN s
  ELSE IF IsSpace(s[1]) THEN Strip(Tail(s))
  ELSE IF IsSpace(s[Len(s)]) THEN Strip(SubSeq(s, 1, Len(s) - 1))
  ELSE s

normalize_input(text) ==
  LET t1 == Lower(text)
      t2 == RemoveDosage(t1)
      t3 == RemoveSuffix(t2)
      t4 == RemoveParenthetical(t3)
      t5 == JoinSplit(t4)
      t6 == ReplaceHyphens(t5)
      t7 == JoinSplit(t6)
  IN  Strip(t7)

(***************************************************************************)
(* difflib.SequenceMatcher(None, a, b).ratio() as fuzzy_match uses it.     *)
(* Both strings are far shorter than the 200 elements at which difflib's   *)
(* "popular element" heuristic starts, and no junk test is given, so every *)
(* element of b takes part.  A ratio is kept as the exact fraction         *)
(* num/den instead of the float 2.0*matches/length.                        *)
(***************************************************************************)

Score(n, d) == [num |-> n, den |-> d]

\* the float comparisons of find_medication on these fractions
ScoreGT(x, y) == x.num * y.den > y.num * x.den
ScoreGE(x, y) == x.num * y.den >= y.num * x.den

\* length of the common run that starts at a[i] and b[j] and ends at or
\* before a[ahi] and b[bhi]
RECURSIVE RunLen(_, _, _, _, _, _)
RunLen(a, b, i, j, ahi, bhi) ==
  IF i > ahi \/ j > bhi THEN 0
  ELSE IF a[i] # b[j] THEN 0
  ELSE 1 + RunLen(a, b, i + 1, j + 1, ahi, bhi)

\* the places in a[alo..ahi], b[blo..bhi] where a common run starts
RunStarts(a, b, alo, ahi, blo, bhi) ==
  {p \in (alo..ahi) \X (blo..bhi) :
      /\ a[p[1]] = b[p[2]]
      /\ \/ p[1] = alo
         \/ p[2] = blo
         \/ a[p[1] - 1] # b[p[2] - 1]}

\* of the blocks the longest; of the longest ones the one starting earliest
\* in a, and of those the one starting earliest in b
LongestBlock(blocks, alo, blo) ==
  IF blocks = {} THEN [i |-> alo, j |-> blo, size |-> 0]
  ELSE CHOOSE m \in blocks :
         \A o \in blocks :
            \/ m.size > o.size
            \/ /\ m.size = o.size
               /\ \/ m.i < o.i
                  \/ m.i = o.i /\ m.j <= o.j

\* SequenceMatcher.find_longest_match on a[alo..ahi], b[blo..bhi]; size 0
\* when nothing matches
find_longest_match(a, b, alo, ahi, blo, bhi) ==
  LongestBlock({[i |-> p[1], j |-> p[2],
                 size |-> RunLen(a, b, p[1], p[2], ahi, bhi)] :
                   p \in RunStarts(a, b, alo, ahi, blo, bhi)},
               alo, blo)

\* the sum of the sizes of SequenceMatcher.get_matching_blocks: the longest
\* block m, then the same to the left of it and to the right of it
RECURSIVE MatchingSize(_, _, _, _, _, _)
MatchingAround(a, b, alo, ahi, blo, bhi, m) ==
  IF m.size = 0 THEN 0
  ELSE m.size
         + MatchingSize(a, b, alo, m.i - 1, blo, m.j - 1)
         + MatchingSize(a, b, m.i + m.size, ahi, m.j + m.size, bhi)

MatchingSize(a, b, alo, ahi, blo, bhi) ==
  IF alo > ahi \/ blo > bhi THEN 0
  ELSE MatchingAround(a, b, alo, ahi, blo, bhi,
                      find_longest_match(a, b, alo, ahi, blo, bhi))

\* SequenceMatcher.ratio: 2.0*matches/(len(a)+len(b)), and 1.0 for two
\* empty sequences
Ratio(a, b) ==
  IF Len(a) + Len(b) = 0 THEN Score(1, 1)
  ELSE Score(2 * MatchingSize(a, b, 1, Len(a), 1, Len(b)), Len(a) + Len(b))

\* MedicationMatcher.fuzzy_match
fuzzy_match(input_text, candidate) == Ratio(Lower(input_text), Lower(candidate))

(***************************************************************************)
(* Python dicts keep insertion order and the loops of find_medication run  *)
(* in that order, so a dict is a sequence of entries [k, v] with distinct  *)
(* k.  medication_db is the sequence of its records, each carrying its key.*)
(***************************************************************************)

DictHas(d, k) == \E p \in 1..Len(d) : d[p].k = k

DictGet(d, k) == d[CHOOSE p \in 1..Len(d) : d[p].k = k].v

\* d[k] = v: a key already present keeps its place and takes the new value
DictSet(d, k, v) ==
  IF DictHas(d, k)
    THEN LET p == CHOOSE q \in 1..Len(d) : d[q].k = k
         IN  SubSeq(d, 1, p - 1) \o <<[k |-> k, v |-> v]>> \o SubSeq(d, p + 1, Len(d))
    ELSE Append(d, [k |-> k, v |-> v])

\* self.medication_db[key]
DbGet(db, key) == db[CHOOSE p \in 1..Len(db) : db[p].key = key]

\* the inner loop of _build_lookup_indices: for alias in med_data["aliases"]
RECURSIVE AddAliases(_, _, _, _)
AddAliases(index, aliases, key, i) ==
  IF i > Len(aliases) THEN index
  ELSE AddAliases(DictSet(index, Lower(aliases[i]), key), aliases, key, i + 1)

\* the body of the loop of _build_lookup_indices for one record
IndexRecord(indices, med_data) ==
  [generic_to_key |->
     DictSet(indices.generic_to_key, Lower(med_data.generic), med_data.key),
   brand_to_key |->
     DictSet(indices.brand_to_key, Lower(med_data.brand), med_data.key),
   alias_to_key |->
     AddAliases(indices.alias_to_key, med_data.aliases, med_data.key, 1)]

\* for key, med_data in self.medication_db.items(): the records db[lo..hi],
\* in order, from the dicts `indices`.  The range is run as its first half
\* and then, from the dicts that half leaves (bound to `half` before the
\* second half starts), its second half: the evaluation then nests
\* log(hi - lo) deep and not once per record.
RECURSIVE IndexRecords(_, _, _, _)
IndexRecords(db, lo, hi, indices) ==
  IF lo > hi THEN indices
  ELSE IF lo = hi THEN IndexRecord(indices, db[lo])
  ELSE LET mid == (lo + hi) \div 2
       IN  CHOOSE r \in {IndexRecords(db, mid + 1, hi, half) :
                            half \in {IndexRecords(db, lo, mid, indices)}} : TRUE

\* MedicationMatcher._build_lookup_indices
_build_lookup_indices(db) ==
  IndexRecords(db, 1, Len(db),
               [generic_to_key |-> <<>>, brand_to_key |-> <<>>, alias_to_key |-> <<>>])

(***************************************************************************)
(* The built-in table of MedicationMatcher.__init__, in source order.      *)
(***************************************************************************)
BuiltInDb ==
  <<
    [ key |-> <<"a","i","m","o","v","i","g">>,
      generic |-> <<"e","r","e","n","u","m","a","b">>,
      brand |-> <<"A","i","m","o","v","i","g">>,
      drug_class |-> "CGRP mAbs",
      aliases |-> <<<<"e","r","e","n","u","m","a","b">>, <<"a","i","m","o","v","i","g">>, <<"e","r","e","n","u","m","a","b","-","a","o","o","e">>>>,
      common_misspellings |-> <<<<"a","i","m","o","v","a","g">>, <<"a","i","m","o","v","i","g">>, <<"e","r","e","n","o","m","a","b">>, <<"e","r","e","n","u","m","o","b">>>> ],
    [ key |-> <<"e","m","g","a","l","i","t","y">>,
      generic |-> <<"g","a","l","c","a","n","e","z","u","m","a","b">>,
      brand |-> <<"E","m","g","a","l","i","t","y">>,
      drug_class |-> "CGRP mAbs",
      aliases |-> <<<<"g","a","l","c","a","n","e","z","u","m","a","b">>, <<"e","m","g","a","l","i","t","y">>, <<"g","a","l","c","a","n","e","z","u","m","a","b","-","g","n","l","m">>>>,
      common_misspellings |-> <<<<"e","m","g","a","l","a","t","y">>, <<"g","a","l","c","a","n","e","z","u","m","o","b">>, <<"g","a","l","c","a","n","e","z","e","m","a","b">>>> ],
    [ key |-> <<"a","j","o","v","y">>,
      generic |-> <<"f","r","e","m","a","n","e","z","u","m","a","b">>,
      brand |-> <<"A","j","o","v","y">>,
      drug_class |-> "CGRP mAbs",
      aliases |-> <<<<"f","r","e","m","a","n","e","z","u","m","a","b">>, <<"a","j","o","v","y">>, <<"f","r","e","m","a","n","e","z","u","m","a","b","-","v","f","r","m">>>>,
      common_misspellings |-> <<<<"a","j","o","v","e","y">>, <<"f","r","e","m","a","n","e","z","e","m","a","b">>, <<"f","r","e","m","a","n","e","z","u","m","o","b">>>> ],
    [ key |-> <<"v","y","e","p","t","i">>,
      generic |-> <<"e","p","t","i","n","e","z","u","m","a","b">>,
      brand |-> <<"V","y","e","p","t","i">>,
      drug_class |-> "CGRP mAbs",
      aliases |-> <<<<"e","p","t","i","n","e","z","u","m","a","b">>, <<"v","y","e","p","t","i">>, <<"e","p","t","i","n","e","z","u","m","a","b","-","j","j","m","r">>>>,
      common_misspellings |-> <<<<"v","i","e","p","t","i">>, <<"e","p","t","i","n","e","z","e","m","a","b">>, <<"e","p","t","i","n","e","z","u","m","o","b">>>> ],
    [ key |-> <<"n","u","r","t","e","c">>,
      generic |-> <<"r","i","m","e","g","e","p","a","n","t">>,
      brand |-> <<"N","u","r","t","e","c"," ","O","D","T">>,
      drug_class |-> "Gepants",
      aliases |-> <<<<"r","i","m","e","g","e","p","a","n","t">>, <<"n","u","r","t","e","c">>, <<"n","u","r","t","e","c"," ","o","d","t">>, <<"n","u","r","t","e","c","-","o","d","t">>>>,
      common_misspellings |-> <<<<"n","u","r","t","a","c">>, <<"r","i","m","e","g","a","p","e","n","t">>, <<"r","i","m","e","g","e","p","e","n","t">>>> ],
    [ key |-> <<"u","b","r","e","l","v","y">>,
      generic |-> <<"u","b","r","o","g","e","p","a","n","t">>,
      brand |-> <<"U","b","r","e","l","v","y">>,
      drug_class |-> "Gepants",
      aliases |-> <<<<"u","b","r","o","g","e","p","a","n","t">>, <<"u","b","r","e","l","v","y">>>>,
      common_misspellings |-> <<<<"u","b","r","e","l","v","e","y">>, <<"u","b","r","o","g","a","p","e","n","t">>, <<"u","b","r","o","g","e","p","e","n","t">>>> ],
    [ key |-> <<"q","u","l","i","p","t","a">>,
      generic |-> <<"a","t","o","g","e","p","a","n","t">>,
      brand |-> <<"Q","u","l","i","p","t","a">>,
      drug_class |-> "Gepants (Preventive)",
      aliases |-> <<<<"a","t","o","g","e","p","a","n","t">>, <<"q","u","l","i","p","t","a">>>>,
      common_misspellings |-> <<<<"q","u","a","l","i","p","t","a">>, <<"a","t","o","g","a","p","e","n","t">>, <<"a","t","o","g","e","p","e","n","t">>>> ],
    [ key |-> <<"r","e","y","v","o","w">>,
      generic |-> <<"l","a","s","m","i","d","i","t","a","n">>,
      brand |-> <<"R","e","y","v","o","w">>,
      drug_class |-> "Ditans",
      aliases |-> <<<<"l","a","s","m","i","d","i","t","a","n">>, <<"r","e","y","v","o","w">>>>,
      common_misspellings |-> <<<<"r","a","y","v","o","w">>, <<"l","a","s","m","i","d","a","t","a","n">>, <<"l","a","s","m","i","d","i","t","a","n","t">>>> ],
    [ key |-> <<"b","o","t","o","x">>,
      generic |-> <<"o","n","a","b","o","t","u","l","i","n","u","m","t","o","x","i","n","A">>,
      brand |-> <<"B","o","t","o","x">>,
      drug_class |-> "Botox",
      aliases |-> <<<<"o","n","a","b","o","t","u","l","i","n","u","m","t","o","x","i","n","a">>, <<"b","o","t","o","x">>, <<"o","n","a","b","o","t","u","l","i","n","u","m">>, <<"o","n","a","b","o","t","u","l","i","n","u","m","t","o","x","i","n"," ","a">>>>,
      common_misspellings |-> <<<<"b","o","t","u","l","i","n","u","m">>, <<"o","n","a","b","o","t","u","l","i","n","u","m">>>> ],
    [ key |-> <<"s","u","m","a","t","r","i","p","t","a","n">>,
      generic |-> <<"s","u","m","a","t","r","i","p","t","a","n">>,
      brand |-> <<"I","m","i","t","r","e","x">>,
      drug_class |-> "Triptan",
      aliases |-> <<<<"s","u","m","a","t","r","i","p","t","a","n">>, <<"i","m","i","t","r","e","x">>, <<"s","u","m","a","v","e","l">>, <<"z","e","c","u","i","t","y">>>>,
      common_misspellings |-> <<<<"s","u","m","a","t","r","i","p","p","t","a","n">>, <<"s","u","m","a","t","r","i","p","t","i","n">>, <<"i","m","i","t","r","i","x">>>> ],
    [ key |-> <<"r","i","z","a","t","r","i","p","t","a","n">>,
      generic |-> <<"r","i","z","a","t","r","i","p","t","a","n">>,
      brand |-> <<"M","a","x","a","l","t">>,
      drug_class |-> "Triptan",
      aliases |-> <<<<"r","i","z","a","t","r","i","p","t","a","n">>, <<"m","a","x","a","l","t">>, <<"m","a","x","a","l","t","-","m","l","t">>>>,
      common_misspellings |-> <<<<"r","i","z","a","t","r","i","p","p","t","a","n">>, <<"r","i","z","a","t","r","i","p","t","i","n">>>> ],
    [ key |-> <<"z","o","l","m","i","t","r","i","p","t","a","n">>,
      generic |-> <<"z","o","l","m","i","t","r","i","p","t","a","n">>,
      brand |-> <<"Z","o","m","i","g">>,
      drug_class |-> "Triptan",
      aliases |-> <<<<"z","o","l","m","i","t","r","i","p","t","a","n">>, <<"z","o","m","i","g">>, <<"z","o","m","i","g","-","z","m","t">>>>,
      common_misspellings |-> <<<<"z","o","l","m","i","t","r","i","p","p","t","a","n">>, <<"z","o","l","m","i","t","r","i","p","t","i","n">>>> ],
    [ key |-> <<"e","l","e","t","r","i","p","t","a","n">>,
      generic |-> <<"e","l","e","t","r","i","p","t","a","n">>,
      brand |-> <<"R","e","l","p","a","x">>,
      drug_class |-> "Triptan",
      aliases |-> <<<<"e","l","e","t","r","i","p","t","a","n">>, <<"r","e","l","p","a","x">>>>,
      common_misspellings |-> <<<<"e","l","e","t","r","i","p","p","t","a","n">>, <<"e","l","e","t","r","i","p","t","i","n">>>> ],
    [ key |-> <<"n","a","r","a","t","r","i","p","t","a","n">>,
      generic |-> <<"n","a","r","a","t","r","i","p","t","a","n">>,
      brand |-> <<"A","m","e","r","g","e">>,
      drug_class |-> "Triptan",
      aliases |-> <<<<"n","a","r","a","t","r","i","p","t","a","n">>, <<"a","m","e","r","g","e">>>>,
      common_misspellings |-> <<<<"n","a","r","a","t","r","i","p","p","t","a","n">>, <<"n","a","r","a","t","r","i","p","t","i","n">>>> ],
    [ key |-> <<"a","l","m","o","t","r","i","p","t","a","n">>,
      generic |-> <<"a","l","m","o","t","r","i","p","t","a","n">>,
      brand |-> <<"A","x","e","r","t">>,
      drug_class |-> "Triptan",
      aliases |-> <<<<"a","l","m","o","t","r","i","p","t","a","n">>, <<"a","x","e","r","t">>>>,
      common_misspellings |-> <<<<"a","l","m","o","t","r","i","p","p","t","a","n">>, <<"a","l","m","o","t","r","i","p","t","i","n">>>> ],
    [ key |-> <<"f","r","o","v","a","t","r","i","p","t","a","n">>,
      generic |-> <<"f","r","o","v","a","t","r","i","p","t","a","n">>,
      brand |-> <<"F","r","o","v","a">>,
      drug_class |-> "Triptan",
      aliases |-> <<<<"f","r","o","v","a","t","r","i","p","t","a","n">>, <<"f","r","o","v","a">>>>,
      common_misspellings |-> <<<<"f","r","o","v","a","t","r","i","p","p","t","a","n">>, <<"f","r","o","v","a","t","r","i","p","t","i","n">>>> ],
    [ key |-> <<"p","r","o","p","r","a","n","o","l","o","l">>,
      generic |-> <<"p","r","o","p","r","a","n","o","l","o","l">>,
      brand |-> <<"I","n","d","e","r","a","l">>,
      drug_class |-> "Beta-blocker",
      aliases |-> <<<<"p","r","o","p","r","a","n","o","l","o","l">>, <<"i","n","d","e","r","a","l">>, <<"i","n","d","e","r","a","l"," ","l","a">>, <<"i","n","n","o","p","r","a","n"," ","x","l">>>>,
      common_misspellings |-> <<<<"p","r","o","p","a","n","o","l","o","l">>, <<"p","r","o","p","r","a","n","o","l","a","l">>, <<"p","r","o","p","a","n","a","l","o","l">>, <<"i","n","d","r","a","l">>>> ],
    [ key |-> <<"m","e","t","o","p","r","o","l","o","l">>,
      generic |-> <<"m","e","t","o","p","r","o","l","o","l">>,
      brand |-> <<"T","o","p","r","o","l","-","X","L">>,
      drug_class |-> "Beta-blocker",
      aliases |-> <<<<"m","e","t","o","p","r","o","l","o","l">>, <<"t","o","p","r","o","l">>, <<"t","o","p","r","o","l","-","x","l">>, <<"l","o","p","r","e","s","s","o","r">>>>,
      common_misspellings |-> <<<<"m","e","t","r","o","p","o","l","o","l">>, <<"m","e","t","a","p","r","o","l","o","l">>, <<"t","o","p","r","a","l">>>> ],
    [ key |-> <<"t","i","m","o","l","o","l">>,
      generic |-> <<"t","i","m","o","l","o","l">>,
      brand |-> <<"B","l","o","c","a","d","r","e","n">>,
      drug_class |-> "Beta-blocker",
      aliases |-> <<<<"t","i","m","o","l","o","l">>, <<"b","l","o","c","a","d","r","e","n">>>>,
      common_misspellings |-> <<<<"t","i","m","e","l","o","l">>, <<"t","i","m","o","l","a","l">>>> ],
    [ key |-> <<"a","t","e","n","o","l","o","l">>,
      generic |-> <<"a","t","e","n","o","l","o","l">>,
      brand |-> <<"T","e","n","o","r","m","i","n">>,
      drug_class |-> "Beta-blocker",
      aliases |-> <<<<"a","t","e","n","o","l","o","l">>, <<"t","e","n","o","r","m","i","n">>>>,
      common_misspellings |-> <<<<"a","t","e","n","a","l","o","l">>, <<"a","t","e","n","o","l","a","l">>>> ],
    [ key |-> <<"t","o","p","i","r","a","m","a","t","e">>,
      generic |-> <<"t","o","p","i","r","a","m","a","t","e">>,
      brand |-> <<"T","o","p","a","m","a","x">>,
      drug_class |-> "Anticonvulsant",
      aliases |-> <<<<"t","o","p","i","r","a","m","a","t","e">>, <<"t","o","p","a","m","a","x">>, <<"t","r","o","k","e","n","d","i"," ","x","r">>, <<"q","u","d","e","x","y"," ","x","r">>>>,
      common_misspellings |-> <<<<"t","o","p","i","m","a","x">>, <<"t","o","p","o","m","a","x">>, <<"t","o","p","i","r","a","m","a","t">>, <<"t","o","p","i","r","i","m","a","t","e">>, <<"t","o","p","a","m","a","x">>>> ],
    [ key |-> <<"v","a","l","p","r","o","a","t","e">>,
      generic |-> <<"v","a","l","p","r","o","a","t","e">>,
      brand |-> <<"D","e","p","a","k","o","t","e">>,
      drug_class |-> "Anticonvulsant",
      aliases |-> <<<<"v","a","l","p","r","o","a","t","e">>, <<"v","a","l","p","r","o","i","c"," ","a","c","i","d">>, <<"d","i","v","a","l","p","r","o","e","x">>, <<"d","e","p","a","k","o","t","e">>, <<"d","e","p","a","k","e","n","e">>>>,
      common_misspellings |-> <<<<"v","a","l","p","r","o","a","t">>, <<"d","i","v","a","l","p","r","o","a","x">>, <<"d","e","p","a","k","o","t">>>> ],
    [ key |-> <<"g","a","b","a","p","e","n","t","i","n">>,
      generic |-> <<"g","a","b","a","p","e","n","t","i","n">>,
      brand |-> <<"N","e","u","r","o","n","t","i","n">>,
      drug_class |-> "Anticonvulsant",
      aliases |-> <<<<"g","a","b","a","p","e","n","t","i","n">>, <<"n","e","u","r","o","n","t","i","n">>, <<"g","r","a","l","i","s","e">>>>,
      common_misspellings |-> <<<<"g","a","b","a","p","e","n","t","i","n">>, <<"n","e","u","r","o","n","t","i","n">>, <<"g","a","b","a","p","a","n","t","i","n">>>> ],
    [ key |-> <<"l","e","v","e","t","i","r","a","c","e","t","a","m">>,
      generic |-> <<"l","e","v","e","t","i","r","a","c","e","t","a","m">>,
      brand |-> <<"K","e","p","p","r","a">>,
      drug_class |-> "Anticonvulsant",
      aliases |-> <<<<"l","e","v","e","t","i","r","a","c","e","t","a","m">>, <<"k","e","p","p","r","a">>>>,
      common_misspellings |-> <<<<"l","e","v","i","t","i","r","a","c","e","t","a","m">>, <<"k","e","p","p","r","a">>>> ],
    [ key |-> <<"z","o","n","i","s","a","m","i","d","e">>,
      generic |-> <<"z","o","n","i","s","a","m","i","d","e">>,
      brand |-> <<"Z","o","n","e","g","r","a","n">>,
      drug_class |-> "Anticonvulsant",
      aliases |-> <<<<"z","o","n","i","s","a","m","i","d","e">>, <<"z","o","n","e","g","r","a","n">>>>,
      common_misspellings |-> <<<<"z","o","n","i","s","a","m","i","d">>, <<"z","o","n","a","g","r","a","n">>>> ],
    [ key |-> <<"a","m","i","t","r","i","p","t","y","l","i","n","e">>,
      generic |-> <<"a","m","i","t","r","i","p","t","y","l","i","n","e">>,
      brand |-> <<"E","l","a","v","i","l">>,
      drug_class |-> "TCA",
      aliases |-> <<<<"a","m","i","t","r","i","p","t","y","l","i","n","e">>, <<"e","l","a","v","i","l">>>>,
      common_misspellings |-> <<<<"a","m","i","t","r","y","p","t","i","l","i","n","e">>, <<"a","m","i","t","r","i","p","t","y","l","i","n">>, <<"e","l","i","v","i","l">>>> ],
    [ key |-> <<"n","o","r","t","r","i","p","t","y","l","i","n","e">>,
      generic |-> <<"n","o","r","t","r","i","p","t","y","l","i","n","e">>,
      brand |-> <<"P","a","m","e","l","o","r">>,
      drug_class |-> "TCA",
      aliases |-> <<<<"n","o","r","t","r","i","p","t","y","l","i","n","e">>, <<"p","a","m","e","l","o","r">>, <<"a","v","e","n","t","y","l">>>>,
      common_misspellings |-> <<<<"n","o","r","t","r","y","p","t","i","l","i","n","e">>, <<"n","o","r","t","r","i","p","t","y","l","i","n">>>> ],
    [ key |-> <<"d","o","x","e","p","i","n">>,
      generic |-> <<"d","o","x","e","p","i","n">>,
      brand |-> <<"S","i","l","e","n","o","r">>,
      drug_class |-> "TCA",
      aliases |-> <<<<"d","o","x","e","p","i","n">>, <<"s","i","l","e","n","o","r">>, <<"s","i","n","e","q","u","a","n">>>>,
      common_misspellings |-> <<<<"d","o","x","a","p","i","n","e">>, <<"d","o","x","i","p","i","n">>>> ],
    [ key |-> <<"p","r","o","t","r","i","p","t","y","l","i","n","e">>,
      generic |-> <<"p","r","o","t","r","i","p","t","y","l","i","n","e">>,
      brand |-> <<"V","i","v","a","c","t","i","l">>,
      drug_class |-> "TCA",
      aliases |-> <<<<"p","r","o","t","r","i","p","t","y","l","i","n","e">>, <<"v","i","v","a","c","t","i","l">>>>,
      common_misspellings |-> <<<<"p","r","o","t","r","y","p","t","i","l","i","n","e">>, <<"p","r","o","t","r","i","p","t","y","l","i","n">>>> ],
    [ key |-> <<"v","e","n","l","a","f","a","x","i","n","e">>,
      generic |-> <<"v","e","n","l","a","f","a","x","i","n","e">>,
      brand |-> <<"E","f","f","e","x","o","r">>,
      drug_class |-> "SNRI",
      aliases |-> <<<<"v","e","n","l","a","f","a","x","i","n","e">>, <<"e","f","f","e","x","o","r">>, <<"e","f","f","e","x","o","r"," ","x","r">>>>,
      common_misspellings |-> <<<<"v","e","n","l","a","f","a","x","i","n">>, <<"v","e","n","l","e","f","a","x","i","n","e">>, <<"e","f","f","e","x","e","r">>>> ],
    [ key |-> <<"d","u","l","o","x","e","t","i","n","e">>,
      generic |-> <<"d","u","l","o","x","e","t","i","n","e">>,
      brand |-> <<"C","y","m","b","a","l","t","a">>,
      drug_class |-> "SNRI",
      aliases |-> <<<<"d","u","l","o","x","e","t","i","n","e">>, <<"c","y","m","b","a","l","t","a">>>>,
      common_misspellings |-> <<<<"d","u","l","o","x","e","t","i","n">>, <<"d","u","l","o","x","a","t","i","n","e">>, <<"c","y","m","b","a","l","t","a">>>> ],
    [ key |-> <<"v","e","r","a","p","a","m","i","l">>,
      generic |-> <<"v","e","r","a","p","a","m","i","l">>,
      brand |-> <<"C","a","l","a","n">>,
      drug_class |-> "Cluster Verapamil",
      aliases |-> <<<<"v","e","r","a","p","a","m","i","l">>, <<"c","a","l","a","n">>, <<"v","e","r","e","l","a","n">>, <<"c","o","v","e","r","a","-","h","s">>>>,
      common_misspellings |-> <<<<"v","e","r","a","p","a","m","e","l">>, <<"v","e","r","a","p","a","m","i","l">>, <<"c","a","l","a","n">>>> ],
    [ key |-> <<"l","i","t","h","i","u","m">>,
      generic |-> <<"l","i","t","h","i","u","m">>,
      brand |-> <<"L","i","t","h","o","b","i","d">>,
      drug_class |-> "Cluster Lithium",
      aliases |-> <<<<"l","i","t","h","i","u","m">>, <<"l","i","t","h","o","b","i","d">>, <<"l","i","t","h","i","u","m"," ","c","a","r","b","o","n","a","t","e">>>>,
      common_misspellings |-> <<<<"l","i","t","h","e","u","m">>, <<"l","i","t","i","u","m">>>> ],
    [ key |-> <<"o","x","y","g","e","n">>,
      generic |-> <<"o","x","y","g","e","n">>,
      brand |-> <<"O","x","y","g","e","n">>,
      drug_class |-> "Cluster Oxygen",
      aliases |-> <<<<"o","x","y","g","e","n">>, <<"o","2">>, <<"h","i","g","h","-","f","l","o","w"," ","o","x","y","g","e","n">>>>,
      common_misspellings |-> <<>> ],
    [ key |-> <<"l","i","s","i","n","o","p","r","i","l">>,
      generic |-> <<"l","i","s","i","n","o","p","r","i","l">>,
      brand |-> <<"Z","e","s","t","r","i","l">>,
      drug_class |-> "ACE Inhibitor",
      aliases |-> <<<<"l","i","s","i","n","o","p","r","i","l">>, <<"z","e","s","t","r","i","l">>, <<"p","r","i","n","i","v","i","l">>>>,
      common_misspellings |-> <<<<"l","i","s","i","n","o","p","r","i","l">>, <<"l","i","s","i","n","o","p","r","a","l">>, <<"z","e","s","t","r","e","l">>>> ],
    [ key |-> <<"c","a","n","d","e","s","a","r","t","a","n">>,
      generic |-> <<"c","a","n","d","e","s","a","r","t","a","n">>,
      brand |-> <<"A","t","a","c","a","n","d">>,
      drug_class |-> "ARB",
      aliases |-> <<<<"c","a","n","d","e","s","a","r","t","a","n">>, <<"a","t","a","c","a","n","d">>>>,
      common_misspellings |-> <<<<"c","a","n","d","e","s","a","r","t","e","n">>, <<"a","t","a","c","a","n","d">>>> ]
  >>

(***************************************************************************)
(* MedicationMatcher.find_medication, get_drug_class, search_multiple      *)
(***************************************************************************)

\* Python's None where a dict is expected (a find_medication result)
None == [is_none |-> TRUE]

\* Python's None where a string is expected (best_match before any hit): no
\* string of the model has an element that is not a single character
NoneKey == <<"None">>

\* the truth value `if best_match:` tests: None and '' are false
Truthy(best_match) == best_match # NoneKey /\ best_match # <<>>

\* MedicationMatcher._build_result
_build_result(key, confidence, match_type) ==
  LET med_data == DbGet(medication_db, key)
  IN  [key         |-> key,
       generic     |-> med_data.generic,
       brand       |-> med_data.brand,
       drug_class  |-> med_data.drug_class,
       confidence  |-> confidence,
       match_type  |-> match_type,
       all_aliases |-> med_data.aliases]

\* One pass of the body of a fuzzy loop of find_medication, for the
\* candidate cand = [k |-> candidate string, v |-> record key]:
\*     score = self.fuzzy_match(normalized, candidate)
\*     if score > best_score and score >= threshold:
\*         best_score = score; best_match = key
TakeIfBetter(key, score, threshold, best) ==
  IF ScoreGT(score, best.best_score) /\ ScoreGE(score, threshold)
    THEN [best_match |-> key, best_score |-> score]
    ELSE best

FuzzyStep(cand, normalized, threshold, best) ==
  TakeIfBetter(cand.v, fuzzy_match(normalized, cand.k), threshold, best)

\* The loop over the candidates cands[lo..hi], in order, from the state
\* `best`.  The range is run as its first half and then, from the state
\* that half leaves (bound to `half` before the second half starts), its
\* second half: the evaluation then nests log(hi - lo) deep and not once
\* per candidate.
RECURSIVE FuzzyLoop(_, _, _, _, _, _)
FuzzyLoop(cands, normalized, threshold, lo, hi, best) ==
  IF lo > hi THEN best
  ELSE IF lo = hi THEN FuzzyStep(cands[lo], normalized, threshold, best)
  ELSE LET mid == (lo + hi) \div 2
       IN  CHOOSE r \in {FuzzyLoop(cands, normalized, threshold, mid + 1, hi, half) :
                            half \in {FuzzyLoop(cands, normalized, threshold, lo, mid, best)}} :
             TRUE

\* for key, med_data in self.medication_db.items():
\*     for misspelling in med_data.get("common_misspellings", []):
RECURSIVE MisspellingCandidates(_, _)
MisspellingCandidates(db, n) ==
  IF n = 0 THEN <<>>
  ELSE LET listed == IF "common_misspellings" \in DOMAIN db[n]
                       THEN db[n].common_misspellings ELSE <<>>
       IN  MisspellingCandidates(db, n - 1)
             \o [i \in 1..Len(listed) |-> [k |-> listed[i], v |-> db[n].key]]

\* for key in self.medication_db.keys():
KeyCandidates(db) == [n \in 1..Len(db) |-> [k |-> db[n].key, v |-> db[n].key]]

\* A faulty exact lookup, for comparison: the dicts asked in the order
\* brand, generic, alias.  C5_ExactLookupOrder tells it from ExactLookup.
ExactLookupBrandFirst(normalized) ==
  IF DictHas(brand_to_key, normalized)
    THEN _build_result(DictGet(brand_to_key, normalized), Score(1, 1), "exact_brand")
  ELSE IF DictHas(generic_to_key, normalized)
    THEN _build_result(DictGet(generic_to_key, normalized), Score(1, 1), "exact_generic")
  ELSE IF DictHas(alias_to_key, normalized)
    THEN _build_result(DictGet(alias_to_key, normalized), Score(1, 1), "exact_alias")
  ELSE None

\* Strategy 1 of find_medication: the alias, generic and brand dicts
ExactLookup(normalized) ==
  IF DictHas(alias_to_key, normalized)
    THEN _build_result(DictGet(alias_to_key, normalized), Score(1, 1), "exact_alias")
  ELSE IF DictHas(generic_to_key, normalized)
    THEN _build_result(DictGet(generic_to_key, normalized), Score(1, 1), "exact_generic")
  ELSE IF DictHas(brand_to_key, normalized)
    THEN _build_result(DictGet(brand_to_key, normalized), Score(1, 1), "exact_brand")
  ELSE None

\* find_medication from "Strategy 4" on: the record keys, from the state
\* `best` the earlier loops left.  What it returns and, in `consulted`, the
\* strategies that ran.
Strategy4Result(best) ==
  IF Truthy(best.best_match)
    THEN [ret |-> _build_result(best.best_match, best.best_score, "fuzzy_key"),
          consulted |-> <<"exact", "alias", "misspelling", "key">>]
    ELSE [ret |-> None, consulted |-> <<"exact", "alias", "misspelling", "key">>]

Strategy4(normalized, threshold, best) ==
  Strategy4Result(FuzzyLoop(KeyCandidates(medication_db), normalized, threshold,
                            1, Len(medication_db), best))

\* find_medication from "Strategy 3" on: the common misspellings
Strategy3Result(normalized, threshold, best) ==
  IF Truthy(best.best_match)
    THEN [ret |-> _build_result(best.best_match, best.best_score, "fuzzy_misspelling"),
          consulted |-> <<"exact", "alias", "misspelling">>]
    ELSE Strategy4(normalized, threshold, best)

FuzzyLoopAll(cands, normalized, threshold, best) ==
  FuzzyLoop(cands, normalized, threshold, 1, Len(cands), best)

\* A faulty strategy 3, for comparison: the common misspellings are not
\* looked at and the keys are tried at once.  C8_MisspellingTolerance tells
\* it from Strategy3.
Strategy3WithoutMisspellings(normalized, threshold, best) ==
  Strategy4(normalized, threshold, best)

Strategy3(normalized, threshold, best) ==
  Strategy3Result(normalized, threshold,
                  FuzzyLoopAll(MisspellingCandidates(medication_db, Len(medication_db)),
                               normalized, threshold, best))

\* find_medication from "Strategy 2" on: the aliases, from best_match = None
\* and best_score = 0.0
Strategy2Result(normalized, threshold, best) ==
  IF Truthy(best.best_match)
    THEN [ret |-> _build_result(best.best_match, best.best_score, "fuzzy_alias"),
          consulted |-> <<"exact", "alias">>]
    ELSE Strategy3(normalized, threshold, best)

Strategy2(normalized, threshold) ==
  Strategy2Result(normalized, threshold,
                  FuzzyLoopAll(alias_to_key, normalized, threshold,
                               [best_match |-> NoneKey, best_score |-> Score(0, 1)]))

\* find_medication from "Strategy 1" on
Strategy1Result(normalized, threshold, exact) ==
  IF exact # None
    THEN [ret |-> exact, consulted |-> <<"exact">>]
    ELSE Strategy2(normalized, threshold)

Strategy1(normalized, threshold) ==
  Strategy1Result(normalized, threshold, ExactLookup(normalized))

\* The whole of find_medication: what it returns and, in `consulted`, the
\* strategies it ran before returning.
FindMedicationRun(input_text, threshold) ==
  Strategy1(normalize_input(input_text), threshold)

find_medication(input_text, threshold) == FindMedicationRun(input_text, threshold).ret

\* the default of the threshold parameter, 0.85
DefaultThreshold == Score(85, 100)

\* MedicationMatcher.get_drug_class: the class, or None
DrugClassOf(result) == IF result # None THEN result.drug_class ELSE "None"

get_drug_class(medication_name) ==
  DrugClassOf(find_medication(medication_name, DefaultThreshold))

\* A faulty results.append, for comparison: the match is put in front of
\* the results.  C7_SearchMultiple tells it from AppendIfMatch.
PrependIfMatch(results, match) ==
  IF match # None THEN <<match>> \o results ELSE results

\* MedicationMatcher.search_multiple, the results after the first n entries
\* if match: results.append(match)
AppendIfMatch(results, match) ==
  IF match # None THEN Append(results, match) ELSE results

RECURSIVE SearchLoop(_, _, _)
SearchLoop(medication_list, threshold, n) ==
  IF n = 0 THEN <<>>
  ELSE AppendIfMatch(SearchLoop(medication_list, threshold, n - 1),
                     find_medication(medication_list[n], threshold))

search_multiple(medication_list, threshold) ==
  SearchLoop(medication_list, threshold, Len(medication_list))

(***************************************************************************)
(* A table without the redundant aliases of the built-in one (there every  *)
(* generic and brand name is an alias as well, so the generic and brand    *)
(* dicts are never the ones that answer).  It stands for the tables a      *)
(* caller installs with  matcher.medication_db = ...;                      *)
(* matcher._build_lookup_indices().                                        *)
(***************************************************************************)
LeanDb ==
  <<
    [ key |-> <<"n","u","r","t","e","c">>,
      generic |-> <<"r","i","m","e","g","e","p","a","n","t">>,
      brand |-> <<"N","u","r","t","e","c"," ","O","D","T">>,
      drug_class |-> "Gepants",
      aliases |-> << <<"n","u","r","t","e","c">> >>,
      common_misspellings |-> << <<"n","u","r","t","a","c">> >> ],
    [ key |-> <<"t","o","p","i","r","a","m","a","t","e">>,
      generic |-> <<"t","o","p","i","r","a","m","a","t","e">>,
      brand |-> <<"T","o","p","a","m","a","x">>,
      drug_class |-> "Anticonvulsant",
      aliases |-> << <<"t","r","o","k","e","n","d","i"," ","x","r">> >>,
      common_misspellings |-> << <<"t","o","p","i","m","a","x">> >> ],
    [ key |-> <<"o","x","y","g","e","n">>,
      generic |-> <<"o","x","y","g","e","n">>,
      brand |-> <<"O","x","y","g","e","n">>,
      drug_class |-> "Cluster Oxygen",
      aliases |-> << <<"o","2">> >>,
      common_misspellings |-> <<>> ]
  >>

MedicationTables == {BuiltInDb, LeanDb}

(***************************************************************************)
(* The inputs the operations are called with.                              *)
(***************************************************************************)

Range(s) == {s[i] : i \in 1..Len(s)}

RECURSIVE Concat(_)
Concat(parts) == IF parts = <<>> THEN <<>> ELSE Head(parts) \o Concat(Tail(parts))

\* sequences over S of length 0..n
RECURSIVE SeqsUpTo(_, _)
SeqsUpTo(S, n) ==
  IF n = 0 THEN {<<>>}
  ELSE LET shorter == SeqsUpTo(S, n - 1)
       IN  shorter \cup {Append(s, x) : s \in shorter, x \in S}

(***************************************************************************)
(* Tables with records that register the same string: every sequence of   *)
(* up to MaxTableLen of these records with different keys.  They stand for *)
(* the tables a caller installs with  matcher.medication_db = ...;         *)
(* matcher._build_lookup_indices().                                        *)
(***************************************************************************)

MaxTableLen == 3

CollisionTables ==
  LET records == {
    [ key |-> <<"e","m","g","a","l","i","t","y">>,
      generic |-> <<"g","a","l","c","a","n","e","z","u","m","a","b">>,
      brand |-> <<"E","m","g","a","l","i","t","y">>,
      drug_class |-> "CGRP mAbs",
      aliases |-> <<<<"e","m","g","a","l","i","t","y">>>>,
      common_misspellings |-> <<>> ],
    [ key |-> <<"e","m","g","a","l","i","t","y","_","c","l","u","s","t","e","r">>,
      generic |-> <<"g","a","l","c","a","n","e","z","u","m","a","b">>,
      brand |-> <<"E","m","g","a","l","i","t","y">>,
      drug_class |-> "CGRP mAb (Cluster)",
      aliases |-> <<<<"E","m","g","a","l","i","t","y">>, <<"e","m","g","a","l","i","t","y"," ","3","0","0">>>>,
      common_misspellings |-> <<>> ],
    [ key |-> <<"n","u","r","t","e","c">>,
      generic |-> <<"r","i","m","e","g","e","p","a","n","t">>,
      brand |-> <<"N","u","r","t","e","c"," ","O","D","T">>,
      drug_class |-> "Gepants",
      aliases |-> <<<<"n","u","r","t","e","c">>>>,
      common_misspellings |-> <<>> ],
    [ key |-> <<"n","u","r","t","e","c","_","p","r","e","v","e","n","t","i","v","e">>,
      generic |-> <<"R","i","m","e","g","e","p","a","n","t">>,
      brand |-> <<"N","u","r","t","e","c">>,
      drug_class |-> "Gepants (Preventive)",
      aliases |-> <<<<"n","u","r","t","e","c">>, <<"n","u","r","t","e","c"," ","q","o","d">>>>,
      common_misspellings |-> <<>> ],
    [ key |-> <<"t","o","p","i","r","a","m","a","t","e">>,
      generic |-> <<"t","o","p","i","r","a","m","a","t","e">>,
      brand |-> <<"T","o","p","a","m","a","x">>,
      drug_class |-> "Anticonvulsant",
      aliases |-> <<<<"t","o","p","a","m","a","x">>>>,
      common_misspellings |-> <<>> ],
    [ key |-> <<"o","x","y","g","e","n">>,
      generic |-> <<"o","x","y","g","e","n">>,
      brand |-> <<"O","x","y","g","e","n">>,
      drug_class |-> "Cluster Oxygen",
      aliases |-> <<<<"o","2">>>>,
      common_misspellings |-> <<>> ] }
  IN  {db \in SeqsUpTo(records, MaxTableLen) :
         \A m, n \in 1..Len(db) : db[m].key = db[n].key => m = n}

AliasesOf(db)      == UNION {Range(db[n].aliases) : n \in 1..Len(db)}
MisspellingsOf(db) == UNION {Range(db[n].common_misspellings) : n \in 1..Len(db)}
NamesOf(db)        == UNION {{db[n].key, db[n].generic, db[n].brand} : n \in 1..Len(db)}

\* the inputs of test_medication_matcher that are not table entries, and
\* strings that are no medication at all
OtherInputs ==
  { <<"A","i","m","o","v","i","g"," ","7","0","m","g">>,
    <<"t","o","p","i","r","a","m","a","t","e"," ","1","0","0","m","g"," ","d","a","i","l","y">>,
    <<"N","u","r","t","e","c"," ","O","D","T"," ","7","5","m","g">>,
    <<"A","I","M","O","V","I","G">>,
    <<"s","u","m","a","t","r","i","p","t","a","n"," ","(","I","m","i","t","r","e","x",")">>,
    <<"a","s","p","i","r","i","n">>,
    <<"t","y","l","e","n","o","l">>,
    <<"z","z","z","_","u","n","r","e","l","a","t","e","d","_","x","y","z">>,
    <<>> }

FindInputs ==
  AliasesOf(BuiltInDb) \cup MisspellingsOf(BuiltInDb) \cup NamesOf(BuiltInDb)
    \cup OtherInputs

\* 0.0, the default 0.85 and 1.0
Thresholds == {Score(0, 1), DefaultThreshold, Score(1, 1)}

\* names of the list of test_medication_matcher and a name that does not
\* resolve
ListInputs ==
  { <<"p","r","o","p","a","n","o","l","o","l">>,
    <<"t","o","p","i","m","a","x">>,
    <<"a","s","p","i","r","i","n">> }

MaxListLen == 3

\* the pieces the inputs of normalize_input are put together from
NormalizeTokens ==
  { <<"f","o","o">>, <<"7","0">>, <<"m","g">>, <<"t","a","b","l","e","t">>,
    <<" ">>, <<"-">>, <<"(">>, <<")">>, <<"\n">> }

MaxTokens == 4

TokenTexts == {Concat(parts) : parts \in SeqsUpTo(NormalizeTokens, MaxTokens)}

\* medication names as they are written in notes
WrittenNames ==
  { <<"A","i","m","o","v","i","g">>,
    <<"t","o","p","i","r","a","m","a","t","e">>,
    <<"N","u","r","t","e","c"," ","O","D","T">>,
    <<"n","u","r","t","e","c","-","o","d","t">>,
    <<"s","u","m","a","t","r","i","p","t","a","n"," ","(","I","m","i","t","r","e","x",")">> }

\* dosage expressions: a number, a unit, and what may follow
DosageNumbers == { <<"7","0">>, <<"1","0","0">>, <<"2",".","5">> }
DosageGaps    == { <<>>, <<" ">> }
DosageTails   ==
  { <<>>, <<" ","d","a","i","l","y">>, <<"/","d","a","y">>, <<"\n","b","i","d">> }

Dosages ==
  { n \o g \o u \o t :
      n \in DosageNumbers, g \in DosageGaps, u \in DosageUnits, t \in DosageTails }

\* what normalize_input is called with: the name, the dosage written after
\* it (<<>> for none), and the text made of them
NormalizeArgs ==
  {[name |-> t, dosage |-> <<>>, text |-> t] : t \in TokenTexts}
    \cup {[name |-> n, dosage |-> d, text |-> n \o <<" ">> \o d] :
            n \in WrittenNames, d \in Dosages}

(***************************************************************************)
(* search_policies_with_fallback of src/headache_vault_demo.py.  The       *)
(* policy table db_b is the sequence of its rows, each with the columns    *)
(* State, Payer_Name and Drug_Class the search reads; a filtered frame is  *)
(* the subsequence of the rows that pass.  The texts are sequences of      *)
(* characters; the two code points of the information sign that opens a    *)
(* message are written "U+2139" and "U+FE0F".                              *)
(***************************************************************************)

ALL == <<"A","L","L">>

\* text.split(): the words of a text, in order
RECURSIVE Split(_)
Split(s) ==
  LET t == Strip(s)
      spaces == {i \in 1..Len(t) : IsSpace(t[i])}
  IN  IF t = <<>> THEN <<>>
      ELSE IF spaces = {} THEN <<t>>
      ELSE <<SubSeq(t, 1, Min(spaces) - 1)>> \o Split(SubSeq(t, Min(spaces), Len(t)))

\* payer_keywords of a payer that is given
PayerKeywords(payer) ==
  LET payer_lower == Lower(payer)
  IN
      IF Contains(payer_lower, <<"h","o","r","i","z","o","n">>)
        THEN <<<<"h","o","r","i","z","o","n">>>>
      ELSE IF Contains(payer_lower, <<"a","e","t","n","a">>)
        THEN <<<<"a","e","t","n","a">>>>
      ELSE IF Contains(payer_lower, <<"u","n","i","t","e","d">>)
          \/ Contains(payer_lower, <<"u","h","c">>)
        THEN <<<<"u","n","i","t","e","d">>, <<"u","h","c">>>>
      ELSE IF Contains(payer_lower, <<"c","i","g","n","a">>)
        THEN <<<<"c","i","g","n","a">>>>
      ELSE IF Contains(payer_lower, <<"a","n","t","h","e","m">>)
          \/ Contains(payer_lower, <<"e","l","e","v","a","n","c","e">>)
        THEN <<<<"a","n","t","h","e","m">>, <<"e","l","e","v","a","n","c","e">>>>
      ELSE IF Contains(payer_lower, <<"b","c","b","s">>)
          \/ Contains(payer_lower, <<"b","l","u","e"," ","c","r","o","s","s">>)
        THEN <<<<"b","c","b","s">>, <<"b","l","u","e"," ","c","r","o","s","s">>, <<"b","l","u","e"," ","s","h","i","e","l","d">>>>
      ELSE IF Contains(payer_lower, <<"h","u","m","a","n","a">>)
        THEN <<<<"h","u","m","a","n","a">>>>
      ELSE IF Contains(payer_lower, <<"k","a","i","s","e","r">>)
        THEN <<<<"k","a","i","s","e","r">>>>
      ELSE IF Contains(payer_lower, <<"h","i","g","h","m","a","r","k">>)
        THEN <<<<"h","i","g","h","m","a","r","k">>>>
      ELSE IF Contains(payer_lower, <<"i","n","d","e","p","e","n","d","e","n","c","e">>)
        THEN <<<<"i","n","d","e","p","e","n","d","e","n","c","e">>>>
      ELSE IF Split(payer) # <<>>
        THEN <<Lower(Split(payer)[1])>>
      ELSE <<payer_lower>>

\* A faulty state filter, for comparison: the rows of State ALL pass with
\* those of the state.
InStateOrNational(table, state) ==
  SelectSeq(table, LAMBDA row : row.State \in {state, <<"A","L","L">>})

\* db_b[db_b['State'] == state]
InState(table, state) ==
  SelectSeq(table, LAMBDA row : row.State = state)

\* One character of a str.contains pattern against one character of the
\* text.  The keyword is a regular expression (regex=True is the default of
\* str.contains) compiled with re.IGNORECASE: "." is any character but a
\* line break, a letter, digit, blank or apostrophe is itself.  The
\* keywords of the model have no other characters.
PatternCharMatches(p, c) ==
  IF p = "." THEN c # "\n" ELSE Lower(<<p>>) = Lower(<<c>>)

\* the pattern matches the text from text[i] on
PatternAt(text, i, pattern) ==
  /\ i + Len(pattern) - 1 <= Len(text)
  /\ \A k \in 1..Len(pattern) : PatternCharMatches(pattern[k], text[i + k - 1])

\* query['Payer_Name'].str.contains(kw, case=False, na=False) for one row
PayerNameContains(row, kw) ==
  \E i \in 1..(Len(row.Payer_Name) - Len(kw) + 1) : PatternAt(row.Payer_Name, i, kw)

\* the mask built over payer_keywords: any keyword is contained
MatchesPayer(row, payer_keywords) ==
  \E i \in 1..Len(payer_keywords) : PayerNameContains(row, payer_keywords[i])

WithPayer(table, payer_keywords) ==
  SelectSeq(table, LAMBDA row : MatchesPayer(row, payer_keywords))

\* A faulty class filter, for comparison: the rows that pass come out in the
\* opposite order.  C14_StableFiltering tells it from WithClass.
WithClassReversed(table, drug_class) ==
  LET kept == SelectSeq(table, LAMBDA row : row.Drug_Class = drug_class)
  IN  [i \in 1..Len(kept) |-> kept[Len(kept) + 1 - i]]

\* query[query['Drug_Class'] == drug_class]
WithClass(table, drug_class) ==
  SelectSeq(table, LAMBDA row : row.Drug_Class = drug_class)

GepantsPreventive == <<"G","e","p","a","n","t","s"," ","(","P","r","e","v","e","n","t","i","v","e",")">>
Qulipta == <<"Q","u","l","i","p","t","a">>
CGRPmAbs == <<"C","G","R","P"," ","m","A","b","s">>

\* cascade_classes
CascadeClasses(drug_class) ==
  IF drug_class = GepantsPreventive THEN <<Qulipta, CGRPmAbs>>
  ELSE IF drug_class = Qulipta THEN <<GepantsPreventive, CGRPmAbs>>
  ELSE <<>>

\* A faulty cascade loop, for comparison: without the break the last cascade
\* class that has rows is the one kept.  C11_DrugClassCascade tells it from
\* FirstCascadeHit.
LastCascadeHit(table, cascade_classes) ==
  LET hits == {i \in 1..Len(cascade_classes) : WithClass(table, cascade_classes[i]) # <<>>}
  IN  IF hits = {} THEN 0 ELSE CHOOSE i \in hits : \A j \in hits : j <= i

\* for cascade_class in cascade_classes: ... break -- the position of the
\* first cascade class that has rows in table, 0 when none has
FirstCascadeHit(table, cascade_classes) ==
  LET hits == {i \in 1..Len(cascade_classes) : WithClass(table, cascade_classes[i]) # <<>>}
  IN  IF hits = {} THEN 0 ELSE Min(hits)

\* the four f-strings of fallback_message
PayerNationalMessage(state, payer) ==
  <<"U+2139","U+FE0F"," ","N","o"," ">>
    \o state \o <<"-","s","p","e","c","i","f","i","c"," ","p","o","l","i","c","y"," ",
      "f","o","r"," ">>
    \o payer
    \o <<"."," ","S","h","o","w","i","n","g"," ","*","*","n","a","t","i","o",
      "n","a","l"," ","b","a","s","e","l","i","n","e","*","*"," ","p","o",
      "l","i","c","y","."," ","S","t","a","t","e","-","s","p","e","c","i",
      "f","i","c"," ","r","u","l","e","s"," ","m","a","y"," ","v","a","r",
      "y",".">>

CascadeMessage(drug_class, cascade_class) ==
  <<"U+2139","U+FE0F"," ","N","o"," ">> \o drug_class
    \o <<" ","p","o","l","i","c","y"," ","f","o","u","n","d","."," ","S","h",
      "o","w","i","n","g"," ","*","*">>
    \o cascade_class
    \o <<"*","*"," ","p","o","l","i","c","y"," ","(","s","i","m","i","l","a",
      "r"," ","s","t","e","p"," ","t","h","e","r","a","p","y"," ","r","e",
      "q","u","i","r","e","m","e","n","t","s",")",".">>

NationalCascadeMessage(state, drug_class, cascade_class) ==
  <<"U+2139","U+FE0F"," ","N","o"," ">>
    \o state \o <<"-","s","p","e","c","i","f","i","c"," ">> \o drug_class
    \o <<" ","p","o","l","i","c","y","."," ","S","h","o","w","i","n","g"," ",
      "*","*","n","a","t","i","o","n","a","l"," ">>
    \o cascade_class \o <<"*","*"," ","b","a","s","e","l","i","n","e",".">>

\* A faulty national retry, for comparison: it sets fallback_used and
\* leaves the message empty.
NoNationalDrugMessage(state, drug_class) == <<>>

NationalDrugMessage(state, drug_class) ==
  <<"U+2139","U+FE0F"," ","N","o"," ">>
    \o state \o <<"-","s","p","e","c","i","f","i","c"," ","p","o","l","i","c","y"," ",
      "f","o","r"," ">>
    \o drug_class
    \o <<"."," ","S","h","o","w","i","n","g"," ","*","*","n","a","t","i","o",
      "n","a","l"," ","b","a","s","e","l","i","n","e","*","*"," ","p","o",
      "l","i","c","y",".">>

\* A faulty payer step, for comparison: the national rows are taken whenever
\* there are any, also when the state has rows of the payer.
\* C12_NoFallbackWhenDirectHit tells it from PayerFallback.
PayerFallbackNationalFirst(payer_query, national_payer, state, payer) ==
  IF national_payer # <<>>
    THEN [query |-> national_payer, fallback_used |-> TRUE,
          fallback_message |-> PayerNationalMessage(state, payer)]
    ELSE [query |-> payer_query, fallback_used |-> FALSE, fallback_message |-> <<>>]

\* "Apply payer filter with flexible matching": the frame, the flag and the
\* message after the payer step
PayerFallback(payer_query, national_payer, state, payer) ==
  IF payer_query # <<>>
    THEN [query |-> payer_query, fallback_used |-> FALSE, fallback_message |-> <<>>]
  ELSE IF national_payer # <<>>
    THEN [query |-> national_payer, fallback_used |-> TRUE,
          fallback_message |-> PayerNationalMessage(state, payer)]
  ELSE [query |-> payer_query, fallback_used |-> FALSE, fallback_message |-> <<>>]

PayerStep(db_b, state, payer) ==
  IF Truthy(payer)
    THEN PayerFallback(WithPayer(InState(db_b, state), PayerKeywords(payer)),
                       WithPayer(InState(db_b, ALL), PayerKeywords(payer)),
                       state, payer)
    ELSE [query |-> InState(db_b, state), fallback_used |-> FALSE,
          fallback_message |-> <<>>]

\* "If still no results, try national fallback": the original drug class on
\* the national rows, then the cascade classes
NationalDrug(national_query, state, drug_class, hit, before) ==
  IF WithClass(national_query, drug_class) # <<>>
    THEN [query |-> WithClass(national_query, drug_class), fallback_used |-> TRUE,
          fallback_message |->
            IF before.fallback_message = <<>>
              THEN NationalDrugMessage(state, drug_class)
              ELSE before.fallback_message]
  ELSE IF hit > 0
    THEN [query |-> WithClass(national_query, CascadeClasses(drug_class)[hit]),
          fallback_used |-> TRUE,
          fallback_message |->
            NationalCascadeMessage(state, drug_class, CascadeClasses(drug_class)[hit])]
  ELSE [query |-> <<>>, fallback_used |-> before.fallback_used,
        fallback_message |-> before.fallback_message]

\* A faulty national retry, for comparison: the national rows of every
\* payer are searched.  C13_NationalRetry tells it from NationalQuery.
NationalQueryAnyPayer(db_b, payer) == InState(db_b, ALL)

NationalQuery(db_b, payer) ==
  IF Truthy(payer) THEN WithPayer(InState(db_b, ALL), PayerKeywords(payer))
                   ELSE InState(db_b, ALL)

NationalRetry(national_query, state, drug_class, before) ==
  NationalDrug(national_query, state, drug_class,
               FirstCascadeHit(national_query, CascadeClasses(drug_class)), before)

\* "If no results, try cascading fallbacks"
Cascade(db_b, state, payer, drug_class, hit, before) ==
  IF hit > 0
    THEN [query |-> WithClass(before.query, CascadeClasses(drug_class)[hit]),
          fallback_used |-> TRUE,
          fallback_message |-> CascadeMessage(drug_class, CascadeClasses(drug_class)[hit])]
  ELSE IF ~before.fallback_used
    THEN NationalRetry(NationalQuery(db_b, payer), state, drug_class, before)
  ELSE [before EXCEPT !.query = <<>>]

\* "Apply drug class filter with cascading for preventive gepants"
DrugStep(db_b, state, payer, drug_class, before) ==
  IF ~Truthy(drug_class) THEN before
  ELSE IF WithClass(before.query, drug_class) # <<>>
    THEN [before EXCEPT !.query = WithClass(before.query, drug_class)]
  ELSE Cascade(db_b, state, payer, drug_class,
               FirstCascadeHit(before.query, CascadeClasses(drug_class)), before)

\* returns (query, fallback_used, fallback_message)
search_policies_with_fallback(db_b, state, payer, drug_class) ==
  DrugStep(db_b, state, payer, drug_class, PayerStep(db_b, state, payer))

(***************************************************************************)
(* The policy tables and the searches the model runs.                      *)
(***************************************************************************)

PolicyStates == {<<"P","A">>, ALL}

PolicyPayers == {<<"A","e","t","n","a"," ","B","e","t","t","e","r"," ","H","e","a","l","t","h">>,
                 <<"U","n","i","t","e","d","H","e","a","l","t","h","c","a","r","e"," ","W","e","s","t","e","r","n">>}

PolicyClasses == {GepantsPreventive, Qulipta, CGRPmAbs}

PolicyRows ==
  {[State |-> s, Payer_Name |-> p, Drug_Class |-> c] :
      s \in PolicyStates, p \in PolicyPayers, c \in PolicyClasses}

MaxRows == 2

PolicyTables == SeqsUpTo(PolicyRows, MaxRows)

\* a payer of each kind: not given, one of the listed names, one that gives
\* two keywords, one whose first word is the keyword, and one whose first
\* word has a "."
SearchPayers == {NoneKey, <<"a","e","t","n","a">>, <<"U","H","C">>,
                 <<"W","e","s","t","e","r","n"," ","H","e","a","l","t","h"," ","P","l","a","n">>,
                 <<"S","t","."," ","L","u","k","e","'","s"," ","H","e","a","l","t","h">>}

SearchClasses == {NoneKey, GepantsPreventive, Qulipta, CGRPmAbs}

(***************************************************************************)
(* check_criteria_met of src/headache_vault_demo.py.  The requirement text *)
(* and the prior medications are sequences of characters; the sign for     *)
(* "greater than or equal" that opens two of the labels is written         *)
(* "U+2265".  A tuple (requirement, met_status, details) of the list that  *)
(* is returned is a record [requirement, met, details], named as the       *)
(* caller unpacks it.                                                      *)
(***************************************************************************)

beta_blockers ==
  <<
    <<"p","r","o","p","r","a","n","o","l","o","l">>,
    <<"m","e","t","o","p","r","o","l","o","l">>,
    <<"a","t","e","n","o","l","o","l">>,
    <<"n","a","d","o","l","o","l">>,
    <<"t","i","m","o","l","o","l">> >>

anticonvulsants ==
  <<
    <<"t","o","p","i","r","a","m","a","t","e">>,
    <<"t","o","p","a","m","a","x">>,
    <<"v","a","l","p","r","o","a","t","e">>,
    <<"d","e","p","a","k","o","t","e">>,
    <<"d","i","v","a","l","p","r","o","e","x">>,
    <<"g","a","b","a","p","e","n","t","i","n">> >>

antidepressants ==
  <<
    <<"a","m","i","t","r","i","p","t","y","l","i","n","e">>,
    <<"n","o","r","t","r","i","p","t","y","l","i","n","e">>,
    <<"v","e","n","l","a","f","a","x","i","n","e">>,
    <<"d","u","l","o","x","e","t","i","n","e">>,
    <<"e","f","f","e","x","o","r">>,
    <<"c","y","m","b","a","l","t","a">> >>

ccbs ==
  <<
    <<"v","e","r","a","p","a","m","i","l">>,
    <<"f","l","u","n","a","r","i","z","i","n","e">> >>

triptans ==
  <<
    <<"s","u","m","a","t","r","i","p","t","a","n">>,
    <<"r","i","z","a","t","r","i","p","t","a","n">>,
    <<"e","l","e","t","r","i","p","t","a","n">>,
    <<"z","o","l","m","i","t","r","i","p","t","a","n">>,
    <<"n","a","r","a","t","r","i","p","t","a","n">>,
    <<"f","r","o","v","a","t","r","i","p","t","a","n">>,
    <<"a","l","m","o","t","r","i","p","t","a","n">> >>

\* text.title() of a lower-case text: a letter that does not follow a
\* letter becomes upper case
Title(text) ==
  LET UpperOf(c) == CHOOSE u \in UpperLetters : LowerMap[u] = c
  IN  [i \in 1..Len(text) |->
         IF text[i] \in LowerLetters /\ (i = 1 \/ text[i - 1] \notin LowerLetters)
           THEN UpperOf(text[i]) ELSE text[i]]

\* any(name in med for name in names)
AnyIn(names, med) == \E i \in 1..Len(names) : Contains(med, names[i])

\* 'Label' not in [m.split(' (')[0] for m in meds_found], where
\* m.split(' (')[0] is the text before the first ' ('
NotFoundYet(label, meds_found) ==
  LET BeforeParen(m) ==
        LET at == {i \in 1..Len(m) : HasAt(m, i, <<" ","(">>)}
        IN  IF at = {} THEN m ELSE SubSeq(m, 1, Min(at) - 1)
  IN  \A i \in 1..Len(meds_found) : BeforeParen(meds_found[i]) # label

\* ', '.join(parts)
RECURSIVE JoinComma(_)
JoinComma(parts) ==
  IF parts = <<>> THEN <<>>
  ELSE IF Len(parts) = 1 THEN parts[1]
  ELSE parts[1] \o <<",", " ">> \o JoinComma(Tail(parts))

\* parts[:n]
Take(parts, n) == SubSeq(parts, 1, IF Len(parts) < n THEN Len(parts) ELSE n)

\* classes_tried += 1; meds_found.append(f"Label ({med.title()})")
Count(found, label, med) ==
  [classes_tried |-> found.classes_tried + 1,
   meds_found |-> Append(found.meds_found, label \o <<" ", "(">> \o Title(med) \o <<")">>)]

\* the if / elif chain of the oral preventive loop for one medication
ClassifyOral(found, med) ==
  IF AnyIn(beta_blockers, med) /\ NotFoundYet(<<"B","e","t","a","-","b","l","o","c","k","e","r">>, found.meds_found)
    THEN Count(found, <<"B","e","t","a","-","b","l","o","c","k","e","r">>, med)
  ELSE IF AnyIn(anticonvulsants, med) /\ NotFoundYet(<<"A","n","t","i","c","o","n","v","u","l","s","a","n","t">>, found.meds_found)
    THEN Count(found, <<"A","n","t","i","c","o","n","v","u","l","s","a","n","t">>, med)
  ELSE IF AnyIn(antidepressants, med) /\ NotFoundYet(<<"A","n","t","i","d","e","p","r","e","s","s","a","n","t">>, found.meds_found)
    THEN Count(found, <<"A","n","t","i","d","e","p","r","e","s","s","a","n","t">>, med)
  ELSE IF AnyIn(ccbs, med) /\ NotFoundYet(<<"C","C","B">>, found.meds_found)
    THEN Count(found, <<"C","C","B">>, med)
  ELSE found

\* for med in prior_meds_lower, over the first n medications
RECURSIVE OralLoop(_, _)
OralLoop(prior_meds_lower, n) ==
  IF n = 0 THEN [classes_tried |-> 0, meds_found |-> <<>>]
  ELSE ClassifyOral(OralLoop(prior_meds_lower, n - 1), prior_meds_lower[n])

OralLabel == <<"U+2265","2"," ","o","r","a","l"," ","p","r","e","v","e","n","t","i","v","e"," ","c","l","a","s","s","e","s">>

\* the tuple of the oral preventive rule
OralTuple(found) ==
  IF found.classes_tried >= 2
    THEN [requirement |-> OralLabel, met |-> TRUE,
          details |-> JoinComma(Take(found.meds_found, 3))]
  ELSE IF found.classes_tried = 1
    THEN [requirement |-> OralLabel, met |-> FALSE,
          details |-> <<"O","n","l","y"," ","1"," ","c","l","a","s","s",":"," ">> \o found.meds_found[1]]
  ELSE [requirement |-> OralLabel, met |-> FALSE,
        details |-> <<"N","o"," ","o","r","a","l"," ","p","r","e","v","e","n","t","i","v","e","s"," ","d","o","c","u","m","e","n","t","e","d">>]

\* the condition of "Check for oral preventive requirements"
OralAsked(step_req_lower) ==
  \/ Contains(step_req_lower, <<"2"," ","o","r","a","l"," ","p","r","e","v","e","n","t","i","v","e">>)
  \/ Contains(step_req_lower, <<"2">>) /\ Contains(step_req_lower, <<"p","r","e","v","e","n","t","i","v","e">>)
  \/ Contains(step_req_lower, <<"c","o","n","v","e","n","t","i","o","n","a","l"," ","o","r","a","l">>)

OralRule(criteria_status, step_req_lower, prior_meds_lower) ==
  IF OralAsked(step_req_lower)
    THEN Append(criteria_status, OralTuple(OralLoop(prior_meds_lower, Len(prior_meds_lower))))
    ELSE criteria_status

\* for t in triptans, over the first k names:
\* if t in med and t.title() not in triptans_tried: triptans_tried.append(t.title())
RECURSIVE TriptanNames(_, _, _)
TriptanNames(triptans_tried, med, k) ==
  LET AddTriptan(tried, t) ==
        IF Contains(med, t) /\ \A i \in 1..Len(tried) : tried[i] # Title(t)
          THEN Append(tried, Title(t))
          ELSE tried
  IN  IF k = 0 THEN triptans_tried
      ELSE AddTriptan(TriptanNames(triptans_tried, med, k - 1), triptans[k])

\* for med in prior_meds_lower, over the first n medications
RECURSIVE TriptanLoop(_, _)
TriptanLoop(prior_meds_lower, n) ==
  IF n = 0 THEN <<>>
  ELSE TriptanNames(TriptanLoop(prior_meds_lower, n - 1), prior_meds_lower[n], Len(triptans))

TriptanLabel == <<"U+2265","2"," ","t","r","i","p","t","a","n","s"," ","t","r","i","e","d">>

\* the tuple of the triptan rule
TriptanTuple(triptans_tried) ==
  IF Len(triptans_tried) >= 2
    THEN [requirement |-> TriptanLabel, met |-> TRUE,
          details |-> JoinComma(Take(triptans_tried, 2))]
  ELSE IF Len(triptans_tried) = 1
    THEN [requirement |-> TriptanLabel, met |-> FALSE,
          details |-> <<"O","n","l","y"," ","1",":"," ">> \o triptans_tried[1]]
  ELSE [requirement |-> TriptanLabel, met |-> FALSE,
        details |-> <<"N","o"," ","t","r","i","p","t","a","n","s"," ","d","o","c","u","m","e","n","t","e","d">>]

TriptanRule(criteria_status, step_req_lower, prior_meds_lower) ==
  IF /\ Contains(step_req_lower, <<"t","r","i","p","t","a","n">>)
     /\ Contains(step_req_lower, <<"2">>) /\ Contains(step_req_lower, <<"t","r","i","p","t","a","n">>)
    THEN Append(criteria_status,
                TriptanTuple(TriptanLoop(prior_meds_lower, Len(prior_meds_lower))))
    ELSE criteria_status

\* any('name' in med for med in prior_meds_lower)
Tried(name, prior_meds_lower) ==
  \E i \in 1..Len(prior_meds_lower) : Contains(prior_meds_lower[i], name)

\* the branch "verapamil OR lithium" as it would be if it asked for both
OrTupleBothNeeded(verapamil_tried, lithium_tried) ==
  IF verapamil_tried /\ lithium_tried
    THEN [requirement |-> <<"V","e","r","a","p","a","m","i","l"," ","O","R"," ","l","i","t","h","i","u","m"," ","f","a","i","l","u","r","e">>, met |-> TRUE,
          details |-> (IF verapamil_tried THEN <<"V","e","r","a","p","a","m","i","l">> ELSE <<"L","i","t","h","i","u","m">>)
                        \o <<" ","t","r","i","a","l"," ","d","o","c","u","m","e","n","t","e","d">>]
    ELSE [requirement |-> <<"V","e","r","a","p","a","m","i","l"," ","O","R"," ","l","i","t","h","i","u","m"," ","f","a","i","l","u","r","e">>, met |-> FALSE,
          details |-> <<"N","e","i","t","h","e","r"," ","d","o","c","u","m","e","n","t","e","d">>]

\* the tuple of the branch "verapamil OR lithium"
OrTuple(verapamil_tried, lithium_tried) ==
  IF verapamil_tried \/ lithium_tried
    THEN [requirement |-> <<"V","e","r","a","p","a","m","i","l"," ","O","R"," ","l","i","t","h","i","u","m"," ","f","a","i","l","u","r","e">>, met |-> TRUE,
          details |-> (IF verapamil_tried THEN <<"V","e","r","a","p","a","m","i","l">> ELSE <<"L","i","t","h","i","u","m">>)
                        \o <<" ","t","r","i","a","l"," ","d","o","c","u","m","e","n","t","e","d">>]
    ELSE [requirement |-> <<"V","e","r","a","p","a","m","i","l"," ","O","R"," ","l","i","t","h","i","u","m"," ","f","a","i","l","u","r","e">>, met |-> FALSE,
          details |-> <<"N","e","i","t","h","e","r"," ","d","o","c","u","m","e","n","t","e","d">>]

\* the tuple of the branch "verapamil AND lithium"; missing holds the
\* names that were not tried, verapamil before lithium
AndTuple(verapamil_tried, lithium_tried) ==
  LET Missing(v, l) ==
        (IF ~v THEN <<<<"v","e","r","a","p","a","m","i","l">>>> ELSE <<>>)
          \o (IF ~l THEN <<<<"l","i","t","h","i","u","m">>>> ELSE <<>>)
  IN
  IF verapamil_tried /\ lithium_tried
    THEN [requirement |-> <<"V","e","r","a","p","a","m","i","l"," ","A","N","D"," ","l","i","t","h","i","u","m"," ","f","a","i","l","u","r","e">>, met |-> TRUE,
          details |-> <<"B","o","t","h"," ","d","o","c","u","m","e","n","t","e","d">>]
    ELSE [requirement |-> <<"V","e","r","a","p","a","m","i","l"," ","A","N","D"," ","l","i","t","h","i","u","m"," ","f","a","i","l","u","r","e">>, met |-> FALSE,
          details |-> <<"M","i","s","s","i","n","g",":"," ">>
                        \o JoinComma(Missing(verapamil_tried, lithium_tried))]

\* the branches of "Check for verapamil/lithium requirements"
VerapamilLithiumTuples(criteria_status, step_req_lower, verapamil_tried, lithium_tried) ==
  IF Contains(step_req_lower, <<" ","o","r"," ">>)
    THEN Append(criteria_status, OrTuple(verapamil_tried, lithium_tried))
  ELSE IF Contains(step_req_lower, <<" ","a","n","d"," ">>)
    THEN Append(criteria_status, AndTuple(verapamil_tried, lithium_tried))
  ELSE criteria_status

VerapamilLithiumRule(criteria_status, step_req_lower, prior_meds_lower) ==
  IF Contains(step_req_lower, <<"v","e","r","a","p","a","m","i","l">>) \/ Contains(step_req_lower, <<"l","i","t","h","i","u","m">>)
    THEN VerapamilLithiumTuples(criteria_status, step_req_lower,
                                Tried(<<"v","e","r","a","p","a","m","i","l">>, prior_meds_lower),
                                Tried(<<"l","i","t","h","i","u","m">>, prior_meds_lower))
    ELSE criteria_status

\* None where a list of medications is expected
NoneList == <<NoneKey>>

\* step_requirements.lower() if step_requirements else ''
StepReqLower(step_requirements) ==
  IF Truthy(step_requirements) THEN Lower(step_requirements) ELSE <<>>

\* [m.lower() for m in prior_medications] if prior_medications else []
PriorMedsLower(prior_medications) ==
  IF prior_medications # NoneList /\ prior_medications # <<>>
    THEN [i \in 1..Len(prior_medications) |-> Lower(prior_medications[i])]
    ELSE <<>>

\* the three rules in their order, on the lowered arguments
CriteriaStatus(step_req_lower, prior_meds_lower) ==
  VerapamilLithiumRule(
    TriptanRule(OralRule(<<>>, step_req_lower, prior_meds_lower),
                step_req_lower, prior_meds_lower),
    step_req_lower, prior_meds_lower)

check_criteria_met(step_requirements, prior_medications, diagnosis) ==
  CriteriaStatus(StepReqLower(step_requirements), PriorMedsLower(prior_medications))

(***************************************************************************)
(* The requirement texts and prior medications the model checks.           *)
(***************************************************************************)

RequirementTexts ==
  {NoneKey, <<>>} \cup
  {
    <<"T","r","i","a","l"," ","o","f"," ","2"," ","o","r","a","l"," ","p","r","e","v","e","n","t","i","v","e"," ","c","l","a","s","s","e","s">>,
    <<"R","e","q","u","i","r","e","s"," ","3"," ","o","r","a","l"," ","p","r","e","v","e","n","t","i","v","e"," ","c","l","a","s","s","e","s">>,
    <<"3"," ","o","r","a","l"," ","p","r","e","v","e","n","t","i","v","e"," ","c","l","a","s","s","e","s"," ","f","o","r"," ","2"," ","m","o","n","t","h","s"," ","e","a","c","h">>,
    <<"F","a","i","l","u","r","e"," ","o","f"," ","2"," ","t","r","i","p","t","a","n","s">>,
    <<"F","a","i","l","u","r","e"," ","o","f"," ","3"," ","t","r","i","p","t","a","n","s">>,
    <<"F","a","i","l","u","r","e"," ","o","f"," ","1"," ","t","r","i","p","t","a","n"," ","w","i","t","h","i","n"," ","1","2"," ","m","o","n","t","h","s">>,
    <<"F","a","i","l","u","r","e"," ","o","f"," ","v","e","r","a","p","a","m","i","l"," ","o","r"," ","l","i","t","h","i","u","m">>,
    <<"F","a","i","l","u","r","e"," ","o","f"," ","V","e","r","a","p","a","m","i","l"," ","A","N","D"," ","L","i","t","h","i","u","m">>,
    <<"F","a","i","l","u","r","e"," ","o","f"," ","v","e","r","a","p","a","m","i","l"," ","a","n","d"," ","l","i","t","h","i","u","m"," ","o","r"," ","c","o","n","t","r","a","i","n","d","i","c","a","t","i","o","n">>,
    <<"2"," ","o","r","a","l"," ","p","r","e","v","e","n","t","i","v","e"," ","c","l","a","s","s","e","s",","," ","2"," ","t","r","i","p","t","a","n","s",","," ","v","e","r","a","p","a","m","i","l"," ","o","r"," ","l","i","t","h","i","u","m">>,
    <<"P","r","i","o","r"," ","a","u","t","h","o","r","i","z","a","t","i","o","n"," ","r","e","q","u","i","r","e","d">> }

PriorMedications ==
  {
    <<"t","o","p","i","r","a","m","a","t","e"," ","1","0","0","m","g">>,
    <<"p","r","o","p","r","a","n","o","l","o","l"," ","8","0","m","g">>,
    <<"g","a","b","a","p","e","n","t","i","n"," ","3","0","0","m","g">>,
    <<"a","m","i","t","r","i","p","t","y","l","i","n","e">>,
    <<"S","u","m","a","t","r","i","p","t","a","n"," ","5","0","m","g">>,
    <<"r","i","z","a","t","r","i","p","t","a","n">>,
    <<"l","i","t","h","i","u","m"," ","3","0","0","m","g">>,
    <<"V","e","r","a","p","a","m","i","l"," ","2","4","0","m","g">> }

MaxMeds == 3

\* prior_medications: None or a list
PriorMedicationLists == {NoneList} \cup SeqsUpTo(PriorMedications, MaxMeds)

(***************************************************************************)
(* The step therapy columns of a policy row: get_step_therapy_details of   *)
(* src/headache_vault_demo.py and the step therapy section of the two      *)
(* PAGenerator texts of src/data_flow.py.  A row is a function from the    *)
(* column names it has to their texts; of a generated text the model keeps *)
(* the two values that are written into it.                                *)
(***************************************************************************)

\* row.get(column, default)
RowGet(row, column, default) ==
  IF column \in DOMAIN row THEN row[column] ELSE default

\* get_step_therapy_details(row): a or b is a when a is true, b otherwise
get_step_therapy_details(row) ==
  LET Or(a, b) == IF Truthy(a) THEN a ELSE b
  IN  [requirement |->
         Or(Or(RowGet(row, "Step_1_Requirement", NoneKey),
               RowGet(row, "Step_Therapy_Requirements", NoneKey)),
            <<"N","o","t"," ","s","p","e","c","i","f","i","e","d">>),
       duration |->
         Or(Or(RowGet(row, "Step_1_Duration", NoneKey),
               RowGet(row, "Step_Therapy_Duration", NoneKey)),
            <<"T","r","i","a","l"," ","d","u","r","a","t","i","o","n"," ","n","o","t"," ","s","p","e","c","i","f","i","e","d">>)]

\* PAGenerator._generate_detailed: the step therapy section
_generate_detailed(row) ==
  IF RowGet(row, "Step_Therapy_Required", NoneKey) = <<"Y","e","s">>
    THEN [required |-> TRUE,
          step_req |-> RowGet(row, "Step_1_Requirement",
                              RowGet(row, "Step_Therapy_Requirements", <<"P","e","r"," ","p","o","l","i","c","y">>)),
          step_dur |-> RowGet(row, "Step_1_Duration",
                              RowGet(row, "Step_Therapy_Duration",
                                     <<"T","r","i","a","l"," ","d","u","r","a","t","i","o","n"," ","p","e","r"," ","p","o","l","i","c","y">>))]
    ELSE [required |-> FALSE]

\* PAGenerator._generate_compact: the step therapy section
_generate_compact(row) ==
  IF RowGet(row, "Step_Therapy_Required", NoneKey) = <<"Y","e","s">>
    THEN [required |-> TRUE,
          step_req |-> RowGet(row, "Step_1_Requirement", <<"P","r","i","o","r"," ","p","r","e","v","e","n","t","i","v","e">>),
          step_dur |-> RowGet(row, "Step_1_Duration", <<"P","e","r"," ","p","o","l","i","c","y">>)]
    ELSE [required |-> FALSE]

\* the policy rows the model checks: a table has the pair of Step_1 columns,
\* the pair of legacy columns, both or neither
StepTherapyRows ==
  LET requirements == {<<"2"," ","o","r","a","l"," ","p","r","e","v","e","n","t","i","v","e","s">>, <<"1"," ","t","r","i","p","t","a","n">>}
      durations == {<<"8"," ","w","e","e","k","s">>, <<"3"," ","m","o","n","t","h","s">>}
      required == {[Step_Therapy_Required |-> r] : r \in {<<"Y","e","s">>, <<"N","o">>}}
      current == {[Step_1_Requirement |-> r, Step_1_Duration |-> d] :
                    r \in requirements, d \in durations}
      legacy == {[Step_Therapy_Requirements |-> r, Step_Therapy_Duration |-> d] :
                   r \in requirements, d \in durations}
      Both(a, b) == [c \in DOMAIN a \cup DOMAIN b |->
                       IF c \in DOMAIN a THEN a[c] ELSE b[c]]
  IN  {Both(q, p) : q \in required,
                    p \in current \cup legacy \cup {Both(c, l) : c \in current, l \in legacy}}
      \cup required

(***************************************************************************)
(* PatientContext and SessionStateManager of src/data_flow.py.             *)
(* st.session_state is a function from the keys present to their values.  *)
(* A value that may be None is a record: [str |-> s], [int |-> n],         *)
(* [list |-> l], or None itself; a dict is a function from its keys; the   *)
(* flags are booleans.  last_updated, a wall-clock stamp that no code      *)
(* reads back, is left out of the context.                                 *)
(***************************************************************************)

\* st.session_state of a new session: no key
NoKeys == [key \in {} |-> None]

\* st.session_state[key] = value
Put(session, key, value) ==
  [k \in DOMAIN session \cup {key} |-> IF k = key THEN value ELSE session[k]]

\* the truth value of `if value:`: None, '', 0 and [] are false
IsTrue(value) ==
  value \notin {None, [str |-> <<>>], [int |-> 0], [list |-> <<>>]}

\* PatientContext(): the dataclass with its defaults
PatientContext ==
  [state             |-> [str |-> <<"P","A">>],
   payer             |-> None,
   drug_class        |-> None,
   diagnosis         |-> [str |-> <<"C","h","r","o","n","i","c"," ","M","i","g","r","a","i","n","e">>],
   age               |-> [int |-> 35],
   headache_type     |-> [str |-> <<"C","h","r","o","n","i","c"," ","M","i","g","r","a","i","n","e">>],
   prior_medications |-> [list |-> <<>>],
   confidence        |-> [str |-> <<"l","o","w">>],
   clinical_note     |-> [str |-> <<>>],
   source            |-> [str |-> <<"m","a","n","u","a","l">>]]

\* PatientContext.update(**kwargs): a keyword that names a field and is not
\* None is set
update(ctx, kwargs) ==
  [key \in DOMAIN ctx |->
     IF key \in DOMAIN kwargs /\ kwargs[key] # None THEN kwargs[key] ELSE ctx[key]]

\* SessionStateManager.DEFAULTS
DEFAULTS ==
  [patient_context    |-> None,
   search_results     |-> None,
   show_pa_text       |-> FALSE,
   show_moh_check     |-> FALSE,
   current_page       |-> [str |-> <<"D","a","s","h","b","o","a","r","d">>],
   user_mode          |-> [str |-> <<"p","c","p">>],
   pa_count           |-> [int |-> 0],
   lead_submitted     |-> FALSE,
   lead_email         |-> [str |-> <<>>],
   show_learning_tips |-> TRUE,
   clinical_note      |-> [str |-> <<>>],
   parsed_data        |-> None,
   patient_age        |-> [int |-> 35]]

\* An initialize that resets, for comparison: every key of DEFAULTS gets its
\* default again
InitializeResetting(session) ==
  Put([key \in DOMAIN session \cup DOMAIN DEFAULTS |->
         IF key \in DOMAIN DEFAULTS THEN DEFAULTS[key] ELSE session[key]],
      "patient_context", PatientContext)

\* SessionStateManager.initialize
initialize(session) ==
  LET defaulted == [key \in DOMAIN session \cup DOMAIN DEFAULTS |->
                      IF key \in DOMAIN session THEN session[key] ELSE DEFAULTS[key]]
  IN  IF defaulted["patient_context"] = None
        THEN Put(defaulted, "patient_context", PatientContext)
        ELSE defaulted

\* SessionStateManager.get_context: the session with a context in it; the
\* context returned is its patient_context
get_context(session) ==
  IF "patient_context" \notin DOMAIN session \/ session["patient_context"] = None
    THEN Put(session, "patient_context", PatientContext)
    ELSE session

\* SessionStateManager._sync_legacy_state(ctx): reading
\* st.session_state.parsed_data raises AttributeError when the key is absent,
\* after patient_age was written
_sync_legacy_state(session, ctx) ==
  LET aged == Put(session, "patient_age", ctx["age"])
      fields == {"state", "payer", "drug_class", "diagnosis", "age",
                 "prior_medications", "confidence"}
      dict == IF aged["parsed_data"] = None THEN NoKeys ELSE aged["parsed_data"]
  IN  IF "parsed_data" \notin DOMAIN aged
        THEN [session |-> aged, raised |-> TRUE]
        ELSE [session |->
                Put(aged, "parsed_data",
                    [key \in DOMAIN dict \cup fields |->
                       IF key \in fields THEN ctx[key] ELSE dict[key]]),
              raised |-> FALSE]

\* SessionStateManager.update_context(source, **kwargs)
update_context(session, source, kwargs) ==
  LET got == get_context(session)
      ctx == [update(got["patient_context"], kwargs) EXCEPT !["source"] = source]
  IN  _sync_legacy_state(Put(got, "patient_context", ctx), ctx)

\* SessionStateManager.set_from_ai_parse(parsed_data): the dict stored in
\* st.session_state.parsed_data is the caller's dict, which
\* _sync_legacy_state then updates in place
set_from_ai_parse(session, parsed_data) ==
  LET got == get_context(session)
      mapping ==
        [state             |-> RowGet(parsed_data, "state", None),
         payer             |-> RowGet(parsed_data, "payer", None),
         drug_class        |-> RowGet(parsed_data, "drug_class", None),
         diagnosis         |-> RowGet(parsed_data, "diagnosis", None),
         age               |-> RowGet(parsed_data, "age", None),
         prior_medications |-> RowGet(parsed_data, "prior_medications", [list |-> <<>>]),
         confidence        |-> RowGet(parsed_data, "confidence", [str |-> <<"l","o","w">>])]
      updates == [key \in {k \in DOMAIN mapping : mapping[k] # None} |-> mapping[key]]
      updated == [update(got["patient_context"], updates)
                    EXCEPT !["source"] = [str |-> <<"a","i","_","p","a","r","s","e","d">>]]
      ctx == IF IsTrue(RowGet(updates, "diagnosis", None))
               THEN [updated EXCEPT !["headache_type"] = updates["diagnosis"]]
               ELSE updated
  IN  _sync_legacy_state(
        Put(Put(got, "patient_context", ctx), "parsed_data", parsed_data), ctx)

\* SessionStateManager.clear_context
clear_context(session) ==
  Put(Put(Put(session, "patient_context", PatientContext), "parsed_data", None),
      "patient_age", [int |-> 35])

\* SessionStateManager.clear_search
clear_search(session) ==
  Put(Put(Put(session, "search_results", None), "show_pa_text", FALSE),
      "show_moh_check", FALSE)

\* what parse_clinical_note returns for a note: a dict in which a field the
\* note does not give is null or absent
ParserOutputs ==
  LET full == [state             : {None, [str |-> <<"N","Y">>]},
               payer             : {None, [str |-> <<"A","e","t","n","a">>]},
               drug_class        : {None, [str |-> CGRPmAbs]},
               diagnosis         : {None, [str |-> <<>>], [str |-> <<"C","l","u","s","t","e","r"," ","H","e","a","d","a","c","h","e">>]},
               age               : {None, [int |-> 52]},
               prior_medications : {None, [list |-> <<<<"t","o","p","i","r","a","m","a","t","e">>>>]},
               confidence        : {[str |-> <<"h","i","g","h">>]}]
      absent == {{}, {"state", "age", "prior_medications", "confidence"}}
  IN  {[key \in DOMAIN dict \ gone |-> dict[key]] : dict \in full, gone \in absent}

\* the keyword arguments update_context is called with
ContextUpdates ==
  {[diagnosis |-> [str |-> <<"C","l","u","s","t","e","r"," ","H","e","a","d","a","c","h","e">>]],
   [diagnosis |-> None],
   [state |-> [str |-> <<"N","Y">>], payer |-> [str |-> <<"A","e","t","n","a">>]],
   [age |-> [int |-> 52], drug_class |-> None]}

(***************************************************************************)
(* The Streamlit script of src/headache_vault_demo.py.  Every interaction  *)
(* runs the script from the top with the event of one widget that the run  *)
(* before rendered; st.rerun() runs it once more without an event and      *)
(* st.stop() ends the run.  The script is modelled with its gate, its      *)
(* navigation, the note parser's button and the two searches.              *)
(***************************************************************************)

\* several assignments to st.session_state
Puts(session, assigned) ==
  [k \in DOMAIN session \cup DOMAIN assigned |->
     IF k \in DOMAIN assigned THEN assigned[k] ELSE session[k]]

\* db_b as load_databases returns it, with the columns the pages read
load_databases ==
  <<[State |-> <<"P","A">>, Payer_Name |-> <<"A","e","t","n","a"," ","B","e","t","t","e","r"," ","H","e","a","l","t","h">>,
     Drug_Class |-> CGRPmAbs, Medication_Category |-> <<"C","h","r","o","n","i","c"," ","M","i","g","r","a","i","n","e"," ","P","r","e","v","e","n","t","i","v","e">>],
    [State |-> <<"P","A">>, Payer_Name |-> <<"A","e","t","n","a"," ","B","e","t","t","e","r"," ","H","e","a","l","t","h">>,
     Drug_Class |-> <<"C","G","R","P"," ","m","A","b","s"," ","(","C","l","u","s","t","e","r",")">>, Medication_Category |-> <<"C","l","u","s","t","e","r"," ","H","e","a","d","a","c","h","e">>],
    [State |-> ALL, Payer_Name |-> <<"A","e","t","n","a"," ","B","e","t","t","e","r"," ","H","e","a","l","t","h">>,
     Drug_Class |-> CGRPmAbs, Medication_Category |-> <<"P","r","e","v","e","n","t","i","v","e">>]>>

\* query[query[column].str.contains(pattern, case=False, na=False)] for a
\* pattern of alternative words
Filtered(query, column, words) ==
  SelectSeq(query, LAMBDA row :
    \E word \in words : Contains(Lower(row[column]), Lower(word)))

\* the Search page after "Search Policies" was clicked with the sidebar's
\* selection
SidebarSearch(session, selected) ==
  LET found == search_policies_with_fallback(load_databases, selected.state,
                                             selected.payer, selected.drug_class)
      query == IF selected.headache_type = <<"C","l","u","s","t","e","r"," ","H","e","a","d","a","c","h","e">>
                 THEN Filtered(found.query, "Drug_Class", {<<"C","l","u","s","t","e","r">>})
               ELSE IF selected.headache_type = <<"C","h","r","o","n","i","c"," ","M","i","g","r","a","i","n","e">>
                 THEN Filtered(found.query, "Medication_Category",
                               {<<"C","h","r","o","n","i","c">>, <<"P","r","e","v","e","n","t","i","v","e">>})
               ELSE found.query
      Given(text) == IF text = NoneKey THEN None ELSE [str |-> text]
      age == session["patient_context"]["age"]
  IN  Puts(session,
           [data_collection_state |->
              [state |-> IF selected.state = ALL THEN None ELSE [str |-> selected.state],
               payer |-> Given(selected.payer),
               drug_class |-> [str |-> selected.drug_class],
               diagnosis |-> None, age |-> None,
               prior_medications |-> [list |-> <<>>]],
            search_results   |-> [rows |-> query],
            patient_age      |-> IF age = None THEN [int |-> 40] ELSE age,
            fallback_used    |-> found.fallback_used,
            fallback_message |-> [str |-> found.fallback_message],
            show_pa_text     |-> FALSE])

\* analyze_parsed_data(parsed_data)
analyze_parsed_data(parsed_data) ==
  [state             |-> RowGet(parsed_data, "state", None),
   payer             |-> RowGet(parsed_data, "payer", None),
   drug_class        |-> RowGet(parsed_data, "drug_class", None),
   diagnosis         |-> RowGet(parsed_data, "diagnosis", None),
   age               |-> RowGet(parsed_data, "age", None),
   prior_medications |-> RowGet(parsed_data, "prior_medications", [list |-> <<>>])]

\* the Paste Notes page after "Parse Note with AI" was clicked: parsed_data
\* is what parse_clinical_note returned for the note
ParseClicked(session, clinical_note, parsed_data) ==
  LET cleared == Puts(session, [parsed_data |-> None, data_collection_state |-> None])
      set == set_from_ai_parse(cleared, parsed_data).session
  IN  IF Strip(clinical_note) = <<>> THEN session
      ELSE IF parsed_data \in {None, NoKeys} THEN cleared
      ELSE Puts(set, [parsed_data |-> set["parsed_data"],
                      data_collection_state |-> analyze_parsed_data(set["parsed_data"])])

\* the Paste Notes page after "Search with Extracted Data" was clicked
NotesSearch(session) ==
  LET parsed == session["parsed_data"]
      Text(value) == IF value = None THEN NoneKey ELSE value.str
      drug == RowGet(parsed, "drug_class", None)
      diagnosis == RowGet(parsed, "diagnosis", None)
      age == RowGet(parsed, "age", None)
      state_drugs == {row.Drug_Class :
                        row \in Range(InState(load_databases,
                                              Text(RowGet(parsed, "state", None))))}
      search_drug_class ==
        IF IsTrue(drug) /\ Contains(drug.str, <<"C","l","u","s","t","e","r">>)
             /\ drug.str \notin state_drugs /\ CGRPmAbs \in state_drugs
          THEN CGRPmAbs ELSE Text(drug)
      found == search_policies_with_fallback(load_databases,
                 Text(RowGet(parsed, "state", None)),
                 Text(RowGet(parsed, "payer", None)), search_drug_class)
      cluster_filtered == Filtered(found.query, "Drug_Class", {<<"C","l","u","s","t","e","r">>})
      chronic_filtered == Filtered(found.query, "Medication_Category",
                                   {<<"C","h","r","o","n","i","c">>, <<"P","r","e","v","e","n","t","i","v","e">>})
      query == IF diagnosis = [str |-> <<"C","l","u","s","t","e","r"," ","H","e","a","d","a","c","h","e">>]
                 THEN IF IsTrue(drug) /\ ~Contains(drug.str, <<"C","l","u","s","t","e","r">>)
                           /\ cluster_filtered # <<>>
                        THEN cluster_filtered ELSE found.query
               ELSE IF diagnosis = [str |-> <<"C","h","r","o","n","i","c"," ","M","i","g","r","a","i","n","e">>]
                 THEN IF chronic_filtered # <<>> THEN chronic_filtered ELSE found.query
               ELSE found.query
  IN  Puts(session,
           [search_results   |-> [rows |-> query],
            patient_age      |-> IF IsTrue(age) THEN age ELSE None,
            fallback_used    |-> found.fallback_used,
            fallback_message |-> [str |-> found.fallback_message],
            show_pa_text     |-> FALSE,
            current_page     |-> [str |-> <<"S","e","a","r","c","h">>]])

\* A gate that lets the script go on, for comparison
NeverStopped(session) == FALSE

\* `if not st.session_state.hipaa_acknowledged: ... st.stop()`: whether the
\* run ends at the acknowledgment screen
Stopped(session) ==
  ~session["hipaa_acknowledged"]

\* the event of a run without a widget: the first load, or the run after
\* st.rerun()
NoEvent == [widget |-> "none"]

\* what a run did: whether the acknowledgment screen was rendered, the page
\* rendered (None when none was), whether a policy search ran, whether the
\* note parser was called, whether the page raised, and the run's event
Ran(modal, page, searched, parsed, raised, event) ==
  [modal |-> modal, page |-> page, searched |-> searched, parsed |-> parsed,
   raised |-> raised, event |-> event]

\* how a pass of the script ends: the session it leaves, what it did, and
\* whether it ended in st.rerun()
Ended(session, ran, rerun) ==
  [session |-> session, script |-> ran, rerun |-> rerun]

\* the Search page: its sidebar reads the context; without a state in the
\* context the placeholder is selected and the results are cleared
SearchPage(ctxed, modal, event) ==
  IF ctxed["patient_context"]["state"] = None
    THEN Ended(Put(ctxed, "search_results", None),
               Ran(modal, ctxed["current_page"], FALSE, FALSE, FALSE, event), FALSE)
  ELSE IF event.widget = "search"
    THEN Ended(SidebarSearch(ctxed, event.selected),
               Ran(modal, ctxed["current_page"], TRUE, FALSE, FALSE, event), FALSE)
  ELSE Ended(ctxed, Ran(modal, ctxed["current_page"], FALSE, FALSE, FALSE, event), FALSE)

\* the Paste Notes page below its parse button: parsed.get raises
\* AttributeError when st.session_state.parsed_data is None
ParsedDisplay(noted, modal, parsed, event) ==
  IF noted["parsed_data"] = None
    THEN Ended(noted, Ran(modal, noted["current_page"], FALSE, parsed, TRUE, event), FALSE)
  ELSE IF event.widget = "search_notes"
            /\ RowGet(noted["parsed_data"], "state", None) # None
    THEN Ended(NotesSearch(noted), Ran(modal, None, TRUE, parsed, FALSE, event), TRUE)
  ELSE Ended(noted, Ran(modal, noted["current_page"], FALSE, parsed, FALSE, event), FALSE)

\* the script below the gate: the title bar, the mode selector, the
\* navigation bar and the current page
Application(keyed, modal, event) ==
  IF event.widget = "home"
    THEN Ended(Puts(keyed, [current_page |-> [str |-> <<"D","a","s","h","b","o","a","r","d">>],
                            search_results |-> None, show_pa_text |-> FALSE]),
               Ran(modal, None, FALSE, FALSE, FALSE, event), TRUE)
  ELSE IF event.widget = "mode" /\ event.mode # keyed["user_mode"]
    THEN Ended(Put(keyed, "user_mode", event.mode),
               Ran(modal, None, FALSE, FALSE, FALSE, event), TRUE)
  ELSE IF event.widget = "nav"
    THEN Ended(Put(keyed, "current_page", event.page),
               Ran(modal, None, FALSE, FALSE, FALSE, event), TRUE)
  ELSE IF keyed["current_page"] = [str |-> <<"S","e","a","r","c","h">>]
    THEN SearchPage(get_context(keyed), modal, event)
  ELSE IF keyed["current_page"] = [str |-> <<"P","a","s","t","e"," ","N","o","t","e","s">>]
    THEN ParsedDisplay(IF event.widget = "parse"
                         THEN ParseClicked(keyed, event.clinical_note, event.parsed_data)
                         ELSE keyed,
                       modal,
                       event.widget = "parse" /\ Strip(event.clinical_note) # <<>>,
                       event)
  ELSE Ended(keyed, Ran(modal, keyed["current_page"], FALSE, FALSE, FALSE, event), FALSE)

\* the HIPAA acknowledgment modal
Gate(keyed, event) ==
  IF ~keyed["hipaa_acknowledged"] /\ event.widget = "acknowledge"
    THEN Ended(Put(keyed, "hipaa_acknowledged", TRUE),
               Ran(TRUE, None, FALSE, FALSE, FALSE, event), TRUE)
  ELSE IF Stopped(keyed)
    THEN Ended(keyed, Ran(TRUE, None, FALSE, FALSE, FALSE, event), FALSE)
  ELSE Application(keyed, ~keyed["hipaa_acknowledged"], event)

\* one pass of the script from the top: initialize, the two keys the script
\* creates itself, then the gate
Pass(session, event) ==
  Gate(Puts([data_collection_state |-> None, hipaa_acknowledged |-> FALSE],
            initialize(session)), event)

\* a run of the script for an event: a pass, and after st.rerun() a pass
\* more without an event; what the run did is what its passes did (origin
\* is None in the first pass, what the first pass did in the second)
RECURSIVE RunScript(_, _, _)
Rerun(pass, origin) ==
  IF pass.rerun THEN RunScript(pass.session, NoEvent, pass.script)
  ELSE IF origin = None THEN [session |-> pass.session, script |-> pass.script]
  ELSE [session |-> pass.session,
        script |-> [pass.script EXCEPT !.searched = origin.searched,
                                       !.event = origin.event]]

RunScript(session, event, origin) == Rerun(Pass(session, event), origin)

\* the pages of the navigation bar
Pages == {[str |-> <<"D","a","s","h","b","o","a","r","d">>], [str |-> <<"S","e","a","r","c","h">>], [str |-> <<"P","a","s","t","e"," ","N","o","t","e","s">>]}

\* what the sidebar of the Search page can be set to
SidebarSelections ==
  [state : {<<"P","A">>, ALL}, payer : {NoneKey, <<"A","e","t","n","a"," ","B","e","t","t","e","r"," ","H","e","a","l","t","h">>},
   drug_class : {CGRPmAbs},
   headache_type : {<<"C","h","r","o","n","i","c"," ","M","i","g","r","a","i","n","e">>, <<"E","p","i","s","o","d","i","c"," ","M","i","g","r","a","i","n","e">>, <<"C","l","u","s","t","e","r"," ","H","e","a","d","a","c","h","e">>}]

\* the notes pasted, and what the parser returns for a note: None when the
\* call fails, or a dict with every field given or none
ClinicalNotes == {<<>>, <<" ">>, <<"5","2","y","o"," ","F",","," ","N","e","w"," ","Y","o","r","k">>}

NoteOutputs ==
  {None} \cup
  {dict \in ParserOutputs :
     LET fields == DOMAIN dict \ {"confidence"}
     IN  \/ \A field \in fields : dict[field] = None
         \/ /\ "state" \in fields
            /\ \A field \in fields : IsTrue(dict[field])}

(***************************************************************************)
(* The state machine.  A MedicationMatcher is constructed with the         *)
(* built-in table; its methods are called one at a time (section 5 of the  *)
(* specification: synchronous, single-threaded).  `call` holds the call in *)
(* progress with its arguments and what it returned.                       *)
(***************************************************************************)

vars ==
  <<medication_db, alias_to_key, generic_to_key, brand_to_key, pc, call,
    session_state, script>>

matcher == <<medication_db, alias_to_key, generic_to_key, brand_to_key>>

app == <<session_state, script>>

NoCall == [op |-> "none"]

\* no run of the script yet
NoRun == Ran(FALSE, None, FALSE, FALSE, FALSE, NoEvent)

\* MedicationMatcher.__init__
Init ==
  /\ medication_db = BuiltInDb
  /\ alias_to_key = _build_lookup_indices(BuiltInDb).alias_to_key
  /\ generic_to_key = _build_lookup_indices(BuiltInDb).generic_to_key
  /\ brand_to_key = _build_lookup_indices(BuiltInDb).brand_to_key
  /\ pc = "idle"
  /\ call = NoCall
  /\ session_state = NoKeys
  /\ script = NoRun

\* matcher.medication_db = db; matcher._build_lookup_indices()
Rebuild ==
  /\ pc = "idle"
  /\ \E db \in MedicationTables \ {medication_db} :
        /\ medication_db' = db
        /\ alias_to_key' = _build_lookup_indices(db).alias_to_key
        /\ generic_to_key' = _build_lookup_indices(db).generic_to_key
        /\ brand_to_key' = _build_lookup_indices(db).brand_to_key
  /\ UNCHANGED <<pc, call, app>>

\* matcher.medication_db = db; matcher._build_lookup_indices(), for the
\* tables with records that register the same string
BuildLookupIndices ==
  /\ pc = "idle"
  /\ \E db \in CollisionTables \ {medication_db} :
        \E built \in {_build_lookup_indices(db)} :
           /\ medication_db' = db
           /\ alias_to_key' = built.alias_to_key
           /\ generic_to_key' = built.generic_to_key
           /\ brand_to_key' = built.brand_to_key
  /\ UNCHANGED <<pc, call, app>>

\* matcher.normalize_input(text)
NormalizeInput ==
  /\ pc = "idle"
  /\ \E a \in NormalizeArgs :
        call' = [op |-> "normalize_input", name |-> a.name, dosage |-> a.dosage,
                 text |-> a.text, pass |-> 1, ret |-> normalize_input(a.text)]
  /\ pc' = "returned"
  /\ UNCHANGED <<matcher, app>>

\* matcher.normalize_input(normalized): the result normalized once more
NormalizeAgain ==
  /\ pc = "returned"
  /\ call.op = "normalize_input"
  /\ call.pass = 1
  /\ call' = [call EXCEPT !.text = call.ret, !.pass = 2,
                          !.ret = normalize_input(call.ret)]
  /\ UNCHANGED <<pc, matcher, app>>

\* A find_medication that learns, for comparison: a match that is not an
\* alias yet is registered as one.
FindMedicationLearning ==
  /\ pc = "idle"
  /\ \E input_text \in FindInputs, threshold \in Thresholds :
        \E run \in {FindMedicationRun(input_text, threshold)} :
           /\ call' = [op |-> "find_medication", input_text |-> input_text,
                       threshold |-> threshold, ret |-> run.ret,
                       consulted |-> run.consulted]
           /\ alias_to_key' =
                 IF run.ret # None /\ ~DictHas(alias_to_key, normalize_input(input_text))
                   THEN DictSet(alias_to_key, normalize_input(input_text), run.ret.key)
                   ELSE alias_to_key
  /\ pc' = "returned"
  /\ UNCHANGED <<medication_db, generic_to_key, brand_to_key, app>>

\* matcher.find_medication(input_text, threshold)
FindMedication ==
  /\ pc = "idle"
  /\ \E input_text \in FindInputs, threshold \in Thresholds :
        \E run \in {FindMedicationRun(input_text, threshold)} :
           call' = [op |-> "find_medication", input_text |-> input_text,
                    threshold |-> threshold, ret |-> run.ret,
                    consulted |-> run.consulted]
  /\ pc' = "returned"
  /\ UNCHANGED <<matcher, app>>

\* matcher.get_drug_class(medication_name)
GetDrugClass ==
  /\ pc = "idle"
  /\ \E medication_name \in ListInputs :
        call' = [op |-> "get_drug_class", medication_name |-> medication_name,
                 ret |-> get_drug_class(medication_name)]
  /\ pc' = "returned"
  /\ UNCHANGED <<matcher, app>>

\* matcher.search_multiple(medication_list, threshold)
SearchMultiple ==
  /\ pc = "idle"
  /\ \E medication_list \in SeqsUpTo(ListInputs, MaxListLen),
        threshold \in {Score(0, 1), DefaultThreshold} :
        call' = [op |-> "search_multiple", medication_list |-> medication_list,
                 threshold |-> threshold,
                 ret |-> search_multiple(medication_list, threshold)]
  /\ pc' = "returned"
  /\ UNCHANGED <<matcher, app>>

\* search_policies_with_fallback(db_b, state, payer, drug_class)
SearchPolicies ==
  /\ pc = "idle"
  /\ \E db_b \in PolicyTables, state \in PolicyStates,
        payer \in SearchPayers, drug_class \in SearchClasses :
        \E found \in {search_policies_with_fallback(db_b, state, payer, drug_class)} :
           call' = [op |-> "search_policies_with_fallback", db_b |-> db_b,
                    state |-> state, payer |-> payer, drug_class |-> drug_class,
                    query |-> found.query, fallback_used |-> found.fallback_used,
                    fallback_message |-> found.fallback_message]
  /\ pc' = "returned"
  /\ UNCHANGED <<matcher, app>>

\* check_criteria_met(step_requirements, prior_medications, diagnosis)
CheckCriteriaMet ==
  /\ pc = "idle"
  /\ \E step_requirements \in RequirementTexts,
        prior_medications \in PriorMedicationLists, diagnosis \in {"Chronic Migraine"} :
        call' = [op |-> "check_criteria_met", step_requirements |-> step_requirements,
                 prior_medications |-> prior_medications, diagnosis |-> diagnosis,
                 ret |-> check_criteria_met(step_requirements, prior_medications, diagnosis)]
  /\ pc' = "returned"
  /\ UNCHANGED <<matcher, app>>

\* get_step_therapy_details(row)
GetStepTherapyDetails ==
  /\ pc = "idle"
  /\ \E row \in StepTherapyRows :
        call' = [op |-> "get_step_therapy_details", row |-> row,
                 ret |-> get_step_therapy_details(row)]
  /\ pc' = "returned"
  /\ UNCHANGED <<matcher, app>>

\* PAGenerator.generate(row, db_c, mode='pcp')
GenerateDetailed ==
  /\ pc = "idle"
  /\ \E row \in StepTherapyRows :
        call' = [op |-> "_generate_detailed", row |-> row,
                 ret |-> _generate_detailed(row)]
  /\ pc' = "returned"
  /\ UNCHANGED <<matcher, app>>

\* PAGenerator.generate(row, db_c, mode='specialist')
GenerateCompact ==
  /\ pc = "idle"
  /\ \E row \in StepTherapyRows :
        call' = [op |-> "_generate_compact", row |-> row,
                 ret |-> _generate_compact(row)]
  /\ pc' = "returned"
  /\ UNCHANGED <<matcher, app>>

\* SessionStateManager.initialize()
Initialize ==
  /\ pc = "idle"
  /\ session_state' = initialize(session_state)
  /\ call' = [op |-> "initialize", before |-> session_state, raised |-> FALSE]
  /\ pc' = "returned"
  /\ UNCHANGED <<matcher, script>>

\* SessionStateManager.update_context(**kwargs)
UpdateContext ==
  /\ pc = "idle"
  /\ \E kwargs \in ContextUpdates :
        \E done \in {update_context(session_state, [str |-> <<"m","a","n","u","a","l">>], kwargs)} :
           /\ session_state' = done.session
           /\ call' = [op |-> "update_context",
                       kwargs |-> kwargs, raised |-> done.raised]
  /\ pc' = "returned"
  /\ UNCHANGED <<matcher, script>>

\* SessionStateManager.set_from_ai_parse(parsed_data)
SetFromAiParse ==
  /\ pc = "idle"
  /\ \E parsed_data \in ParserOutputs :
        \E done \in {set_from_ai_parse(session_state, parsed_data)} :
           /\ session_state' = done.session
           /\ call' = [op |-> "set_from_ai_parse",
                       parsed_data |-> parsed_data, raised |-> done.raised]
  /\ pc' = "returned"
  /\ UNCHANGED <<matcher, script>>

\* SessionStateManager.clear_context()
ClearContext ==
  /\ pc = "idle"
  /\ session_state' = clear_context(session_state)
  /\ call' = [op |-> "clear_context", raised |-> FALSE]
  /\ pc' = "returned"
  /\ UNCHANGED <<matcher, script>>

\* SessionStateManager.clear_search()
ClearSearch ==
  /\ pc = "idle"
  /\ session_state' = clear_search(session_state)
  /\ call' = [op |-> "clear_search", raised |-> FALSE]
  /\ pc' = "returned"
  /\ UNCHANGED <<matcher, script>>

\* the events of the widgets that the last run rendered: no widget (the app
\* is opened, or the script runs again), the acknowledge button, the home
\* button, the mode selector, the navigation bar, "Search Policies" in the
\* sidebar of the Search page, "Parse Note with AI" and "Search with
\* Extracted Data" on the Paste Notes page
Events ==
  {NoEvent}
  \cup {[widget |-> "acknowledge"] : modal \in {script.modal} \ {FALSE}}
  \cup {[widget |-> "home"] : page \in {script.page} \ {None}}
  \cup {[widget |-> "mode", mode |-> mode] :
          mode \in {m \in {[str |-> <<"p","c","p">>], [str |-> <<"s","p","e","c","i","a","l","i","s","t">>]} :
                      script.page # None /\ m # session_state["user_mode"]}}
  \cup {[widget |-> "nav", page |-> page] :
          page \in {p \in Pages : script.page # None}}
  \cup {[widget |-> "search", selected |-> selected] :
          selected \in {s \in SidebarSelections : script.page = [str |-> <<"S","e","a","r","c","h">>]}}
  \cup {[widget |-> "parse", clinical_note |-> parsed[1], parsed_data |-> parsed[2]] :
          parsed \in {p \in ClinicalNotes \X NoteOutputs :
                        script.page = [str |-> <<"P","a","s","t","e"," ","N","o","t","e","s">>]}}
  \cup {[widget |-> "search_notes"] :
          page \in {p \in {script.page} :
                      /\ p = [str |-> <<"P","a","s","t","e"," ","N","o","t","e","s">>]
                      /\ ~script.raised
                      /\ RowGet(session_state["parsed_data"], "state", None) # None}}

\* the script runs for the event of a widget
Interact ==
  /\ pc = "idle"
  /\ \E event \in Events :
        \E ran \in {RunScript(session_state, event, None)} :
           /\ session_state' = ran.session
           /\ script' = ran.script
  /\ UNCHANGED <<matcher, pc, call>>

\* the caller takes the returned value; the matcher is ready for the next call
Return ==
  /\ pc = "returned"
  /\ pc' = "idle"
  /\ call' = NoCall
  /\ UNCHANGED <<matcher, app>>

\* the name normalizer on its own
NextNormalize == NormalizeInput \/ NormalizeAgain \/ Return
SpecNormalize == Init /\ [][NextNormalize]_vars

\* the matcher's lookups
NextMatcher == Rebuild \/ FindMedication \/ GetDrugClass \/ SearchMultiple \/ Return
SpecMatcher == Init /\ [][NextMatcher]_vars

\* the policy search
NextSearch == SearchPolicies \/ Return
SpecSearch == Init /\ [][NextSearch]_vars

\* the step therapy criteria check
NextCriteria == CheckCriteriaMet \/ Return
SpecCriteria == Init /\ [][NextCriteria]_vars

\* the dicts built for tables with records that register the same string
SpecBuild == Init /\ [][BuildLookupIndices]_vars

\* the consumers of the step therapy columns of a policy row
NextStepTherapy ==
  GetStepTherapyDetails \/ GenerateDetailed \/ GenerateCompact \/ Return
SpecStepTherapy == Init /\ [][NextStepTherapy]_vars

\* the session state manager, its operations called in any order
NextSession ==
  Initialize \/ UpdateContext \/ SetFromAiParse \/ ClearContext \/ ClearSearch \/ Return
SpecSession == Init /\ [][NextSession]_vars

\* the app in the browser: the script runs once for every interaction
NextApp == Interact
SpecApp == Init /\ [][NextApp]_vars

(***************************************************************************)
(* What the claims speak about, read off a finished call.                  *)
(***************************************************************************)

Normalized == call.op = "normalize_input" /\ pc = "returned"
Found      == call.op = "find_medication" /\ pc = "returned"
Searched   == call.op = "search_multiple" /\ pc = "returned"

InAnyExactMap(normalized) ==
  \/ DictHas(alias_to_key, normalized)
  \/ DictHas(generic_to_key, normalized)
  \/ DictHas(brand_to_key, normalized)

ExactTypes == {"exact_alias", "exact_generic", "exact_brand"}

\* the candidates of cands that are at or above the threshold for normalized
AtOrAbove(cands, normalized, threshold) ==
  {i \in 1..Len(cands) : ScoreGE(fuzzy_match(normalized, cands[i].k), threshold)}

MisspellingsNow == MisspellingCandidates(medication_db, Len(medication_db))
KeysNow         == KeyCandidates(medication_db)

\* the candidate of cands that a strategy is to return: of those at or above
\* the threshold the one with the highest similarity, the first of them in
\* the order of cands when several tie
FirstBest(cands, normalized, threshold) ==
  LET ok == AtOrAbove(cands, normalized, threshold)
      sim(i) == fuzzy_match(normalized, cands[i].k)
  IN  CHOOSE i \in ok :
        \A j \in ok : \/ ScoreGT(sim(i), sim(j))
                      \/ ~ScoreGT(sim(j), sim(i)) /\ i <= j

IsOne(score) == score.num = score.den

(***************************************************************************)
(* C1.  normalize_input is idempotent: normalizing a normalized text gives *)
(* the same text, also when a dosage, route or form token is joined to the *)
(* name by a hyphen or stands next to parentheses.                         *)
(* In a second pass `text` is the result of the first pass.                *)
(***************************************************************************)
C1_NormalizeIdempotent ==
  (Normalized /\ call.pass = 2) => call.ret = call.text

(***************************************************************************)
(* C2.  Exact-match invariant: every alias A listed under record key K of  *)
(* the built-in table resolves, at the default threshold, to key K with    *)
(* confidence 1.0 and an exact_* match type.                               *)
(***************************************************************************)
C2_ExactMatchInvariant ==
  (Found /\ medication_db = BuiltInDb /\ call.threshold = DefaultThreshold) =>
     \A n \in 1..Len(medication_db) :
        call.input_text \in Range(medication_db[n].aliases) =>
           /\ call.ret # None
           /\ call.ret.key = medication_db[n].key
           /\ IsOne(call.ret.confidence)
           /\ call.ret.match_type \in ExactTypes

(***************************************************************************)
(* C3.  find_medication runs its strategies in the order exact, aliases,   *)
(* misspellings, keys and stops at the first that matches: an exact hit    *)
(* returns with no fuzzy strategy run; the misspellings are consulted only *)
(* when no alias is at or above the threshold, the keys only when no       *)
(* misspelling is; so an alias at or above the threshold wins over any     *)
(* misspelling or key.                                                     *)
(***************************************************************************)
C3_StrategyOrder ==
  Found =>
    LET normalized == normalize_input(call.input_text)
        exactHit   == InAnyExactMap(normalized)
        aliasOk    == AtOrAbove(alias_to_key, normalized, call.threshold) # {}
        misspOk    == AtOrAbove(MisspellingsNow, normalized, call.threshold) # {}
        keyOk      == AtOrAbove(KeysNow, normalized, call.threshold) # {}
        ran(s)     == \E i \in 1..Len(call.consulted) : call.consulted[i] = s
    IN  /\ exactHit =>
             call.consulted = <<"exact">> /\ call.ret.match_type \in ExactTypes
        /\ ran("misspelling") => ~aliasOk
        /\ ran("key") => ~misspOk
        /\ (~exactHit /\ aliasOk) =>
             call.ret # None /\ call.ret.match_type = "fuzzy_alias"
        /\ (~exactHit /\ ~aliasOk /\ misspOk) =>
             call.ret # None /\ call.ret.match_type = "fuzzy_misspelling"
        /\ (~exactHit /\ ~aliasOk /\ ~misspOk /\ keyOk) =>
             call.ret # None /\ call.ret.match_type = "fuzzy_key"

(***************************************************************************)
(* C4.  No partial credit: a result that is not None has a confidence at   *)
(* or above the threshold, for every threshold in [0,1]; and the result is *)
(* None exactly when the normalized input is in none of the three exact    *)
(* maps and no alias, misspelling or key has a similarity at or above the  *)
(* threshold.                                                              *)
(***************************************************************************)
C4_NoPartialCredit ==
  Found =>
    LET normalized == normalize_input(call.input_text)
        anyOk == \/ AtOrAbove(alias_to_key, normalized, call.threshold) # {}
                 \/ AtOrAbove(MisspellingsNow, normalized, call.threshold) # {}
                 \/ AtOrAbove(KeysNow, normalized, call.threshold) # {}
    IN  /\ call.ret # None => ScoreGE(call.ret.confidence, call.threshold)
        /\ call.ret = None <=> (~InAnyExactMap(normalized) /\ ~anyOk)

(***************************************************************************)
(* C5.  The exact lookup asks the alias map, then the generic map, then    *)
(* the brand map, and returns the first hit with confidence 1.0 and the    *)
(* tag of the map that hit; a string present in several maps is answered   *)
(* from the alias map, with the alias map's key.                           *)
(***************************************************************************)
C5_ExactLookupOrder ==
  Found =>
    LET normalized == normalize_input(call.input_text)
        Answered(map, tag) ==
          /\ call.ret # None
          /\ call.ret.key = DictGet(map, normalized)
          /\ call.ret.match_type = tag
          /\ IsOne(call.ret.confidence)
    IN  /\ DictHas(alias_to_key, normalized) => Answered(alias_to_key, "exact_alias")
        /\ (~DictHas(alias_to_key, normalized) /\ DictHas(generic_to_key, normalized))
              => Answered(generic_to_key, "exact_generic")
        /\ (/\ ~DictHas(alias_to_key, normalized)
            /\ ~DictHas(generic_to_key, normalized)
            /\ DictHas(brand_to_key, normalized))
              => Answered(brand_to_key, "exact_brand")
        /\ (call.ret # None /\ call.ret.match_type \in ExactTypes)
              => InAnyExactMap(normalized)

\* a name that is in the alias map and in another map was looked up and
\* answered from the alias map
C5_Witness ==
  /\ Found
  /\ DictHas(alias_to_key, normalize_input(call.input_text))
  /\ DictHas(brand_to_key, normalize_input(call.input_text))
  /\ call.ret.match_type = "exact_alias"

(***************************************************************************)
(* C6.  Within a fuzzy strategy the candidate with the highest similarity  *)
(* at or above the threshold wins, and of several candidates that tie on   *)
(* the highest similarity the one registered first: whenever the input is  *)
(* in no exact map, the first strategy that has a candidate at or above    *)
(* the threshold returns its first best candidate's key with that          *)
(* candidate's similarity.                                                 *)
(***************************************************************************)
C6_BestCandidateWins ==
  Found =>
    LET normalized == normalize_input(call.input_text)
        Wins(cands, tag) ==
          LET w == FirstBest(cands, normalized, call.threshold)
          IN  /\ call.ret # None
              /\ call.ret.match_type = tag
              /\ call.ret.key = cands[w].v
              /\ call.ret.confidence = fuzzy_match(normalized, cands[w].k)
        aliasOk == AtOrAbove(alias_to_key, normalized, call.threshold) # {}
        misspOk == AtOrAbove(MisspellingsNow, normalized, call.threshold) # {}
        keyOk   == AtOrAbove(KeysNow, normalized, call.threshold) # {}
    IN  ~InAnyExactMap(normalized) =>
          /\ aliasOk => Wins(alias_to_key, "fuzzy_alias")
          /\ (~aliasOk /\ misspOk) => Wins(MisspellingsNow, "fuzzy_misspelling")
          /\ (~aliasOk /\ ~misspOk /\ keyOk) => Wins(KeysNow, "fuzzy_key")

(***************************************************************************)
(* C7.  search_multiple returns the find_medication results of the list    *)
(* entries that resolve, in the order of the list, and leaves out the      *)
(* entries that do not resolve; the output is no longer than the input and *)
(* an entry given twice is answered twice.                                 *)
(***************************************************************************)
C7_SearchMultiple ==
  Searched =>
    LET list == call.medication_list
        resolved == {i \in 1..Len(list) : find_medication(list[i], call.threshold) # None}
        \* the position in the list of the k-th entry that resolves
        source(k) == CHOOSE i \in resolved : Cardinality({j \in resolved : j <= i}) = k
    IN  /\ Len(call.ret) = Cardinality(resolved)
        /\ Len(call.ret) <= Len(list)
        /\ \A k \in 1..Len(call.ret) :
              call.ret[k] = find_medication(list[source(k)], call.threshold)

\* a list whose first entry does not resolve and whose other two entries
\* are the same name was searched: one entry left out, the name answered twice
C7_Witness ==
  /\ Searched
  /\ Len(call.medication_list) = 3
  /\ find_medication(call.medication_list[1], call.threshold) = None
  /\ call.medication_list[2] = call.medication_list[3]
  /\ Len(call.ret) = 2
  /\ call.ret[1] = call.ret[2]

(***************************************************************************)
(* C8.  Misspelling tolerance: every string listed in the                  *)
(* common_misspellings of record key K of the built-in table resolves, at  *)
(* the default threshold, to K with confidence >= 0.85: never to another   *)
(* record and never to None.                                               *)
(***************************************************************************)
C8_MisspellingTolerance ==
  (Found /\ medication_db = BuiltInDb /\ call.threshold = DefaultThreshold) =>
     \A n \in 1..Len(medication_db) :
        call.input_text \in Range(medication_db[n].common_misspellings) =>
           /\ call.ret # None
           /\ call.ret.key = medication_db[n].key
           /\ ScoreGE(call.ret.confidence, DefaultThreshold)

\* a listed misspelling that is no alias and is close to no alias was
\* looked up at the default threshold and found through the misspelling list
C8_Witness ==
  /\ Found
  /\ medication_db = BuiltInDb
  /\ call.threshold = DefaultThreshold
  /\ call.input_text \in MisspellingsOf(BuiltInDb)
  /\ call.ret # None
  /\ call.ret.match_type = "fuzzy_misspelling"

(***************************************************************************)
(* C9.  Dosage is never part of identity: a name followed by a blank and a *)
(* dosage expression (a number, a unit mg, mcg, ml, g or unit(s), and      *)
(* anything after it) normalizes to what the name alone normalizes to.     *)
(***************************************************************************)
C9_DosageNeverIdentity ==
  (Normalized /\ call.pass = 1 /\ call.dosage # <<>>) =>
     call.ret = normalize_input(call.name)

PolicySearched == call.op = "search_policies_with_fallback" /\ pc = "returned"

\* the message speaks of the national (nationwide) baseline
MentionsNational(message) ==
  \/ Contains(Lower(message), <<"n","a","t","i","o","n","a","l">>)
  \/ Contains(Lower(message), <<"n","a","t","i","o","n","w","i","d","e">>)

(***************************************************************************)
(* C10.  Payer national fallback: when a payer is given, no row of the     *)
(* requested state matches the payer keywords and at least one row of      *)
(* State ALL does, the search goes on with the ALL rows and returns        *)
(* fallback_used = True with a message that speaks of the national         *)
(* baseline.                                                               *)
(***************************************************************************)
C10_PayerNationalFallback ==
  (/\ PolicySearched
   /\ Truthy(call.payer)
   /\ WithPayer(InState(call.db_b, call.state), PayerKeywords(call.payer)) = <<>>
   /\ WithPayer(InState(call.db_b, ALL), PayerKeywords(call.payer)) # <<>>)
  => /\ call.fallback_used
     /\ MentionsNational(call.fallback_message)
     /\ \A i \in 1..Len(call.query) :
           call.query[i].State = ALL /\ MatchesPayer(call.query[i], PayerKeywords(call.payer))

(***************************************************************************)
(* The frames the claims about the policy search speak of, for the call    *)
(* that has returned.                                                      *)
(***************************************************************************)

\* the rows of the requested state, of the payer when one is given
StateLevel ==
  IF Truthy(call.payer)
    THEN WithPayer(InState(call.db_b, call.state), PayerKeywords(call.payer))
    ELSE InState(call.db_b, call.state)

\* the rows of State ALL, of the payer when one is given
National ==
  IF Truthy(call.payer)
    THEN WithPayer(InState(call.db_b, ALL), PayerKeywords(call.payer))
    ELSE InState(call.db_b, ALL)

\* the rows the drug-class step filters: the national ones when a payer is
\* given and the state has no row of it
AfterPayerStep ==
  IF Truthy(call.payer) /\ StateLevel = <<>> THEN National ELSE StateLevel

\* the substitutes of a drug class, in the order of their priority
Substitutes(drug_class) ==
  IF drug_class = GepantsPreventive THEN <<Qulipta, CGRPmAbs>>
  ELSE IF drug_class = Qulipta THEN <<GepantsPreventive, CGRPmAbs>>
  ELSE <<>>

\* the positions (at most one) of the first class of `classes` with rows in table
FirstWithRows(table, classes) ==
  {i \in 1..Len(classes) :
      /\ WithClass(table, classes[i]) # <<>>
      /\ \A j \in 1..(i - 1) : WithClass(table, classes[j]) = <<>>}

RECURSIVE IsSubsequence(_, _)
IsSubsequence(sub, s) ==
  IF sub = <<>> THEN TRUE
  ELSE IF s = <<>> THEN FALSE
  ELSE IF Head(sub) = Head(s) THEN IsSubsequence(Tail(sub), Tail(s))
  ELSE IsSubsequence(sub, Tail(s))

C12_NoFallbackWhenDirectHit ==
  PolicySearched =>
    LET direct == IF Truthy(call.drug_class)
                    THEN WithClass(StateLevel, call.drug_class) ELSE StateLevel
    IN  direct # <<>> =>
          /\ call.query = direct
          /\ ~call.fallback_used
          /\ call.fallback_message = <<>>

\* the state has a row of the payer and class asked for, the table has a
\* national row of them as well, and the state's row alone was returned
C12_Witness ==
  /\ PolicySearched
  /\ call.state # ALL
  /\ Truthy(call.payer) /\ Truthy(call.drug_class)
  /\ WithClass(StateLevel, call.drug_class) # <<>>
  /\ WithClass(National, call.drug_class) # <<>>
  /\ call.query = WithClass(StateLevel, call.drug_class)
  /\ ~call.fallback_used

(***************************************************************************)
(* C13.  National retry of the drug-class step: when the requested class   *)
(* and all its substitutes have no row at state level, the ALL rows (of    *)
(* the payer, when one is given) are tried with the requested class and    *)
(* then with each substitute in order; the first one with rows is returned *)
(* with fallback_used = True, and the result is empty when none has rows:  *)
(* an empty result with fallback_used = False means the national retry was *)
(* empty too.                                                              *)
(***************************************************************************)
C13_NationalRetry ==
  (PolicySearched /\ Truthy(call.drug_class)
     /\ \A c \in Range(<<call.drug_class>> \o Substitutes(call.drug_class)) :
           WithClass(StateLevel, c) = <<>>) =>
    LET tried == <<call.drug_class>> \o Substitutes(call.drug_class)
        first == FirstWithRows(National, tried)
    IN  /\ \A i \in first :
              call.query = WithClass(National, tried[i]) /\ call.fallback_used
        /\ first = {} => call.query = <<>>
        /\ (call.query = <<>> /\ ~call.fallback_used) => first = {}

\* no payer was given, the state has no row, the ALL rows have neither
\* Qulipta nor its first substitute but the second, and the national rows of
\* the second substitute were returned
C13_Witness ==
  /\ PolicySearched
  /\ ~Truthy(call.payer)
  /\ call.drug_class = Qulipta
  /\ StateLevel = <<>>
  /\ WithClass(National, Qulipta) = <<>>
  /\ WithClass(National, GepantsPreventive) = <<>>
  /\ WithClass(National, CGRPmAbs) # <<>>
  /\ call.query = WithClass(National, CGRPmAbs)
  /\ call.fallback_used

(***************************************************************************)
(* C14.  Stable filtering: on every path the rows returned are a           *)
(* subsequence of the policy table: in the order of the table, each row of *)
(* the table at most once.                                                 *)
(***************************************************************************)
C14_StableFiltering ==
  PolicySearched => IsSubsequence(call.query, call.db_b)

\* two different rows were returned on a fallback path
C14_Witness ==
  /\ PolicySearched
  /\ call.fallback_used
  /\ Len(call.query) = 2
  /\ call.query[1] # call.query[2]

(***************************************************************************)
(* C15.  Payer filter: a payer that is given is expanded to its keywords   *)
(* and a row passes iff its Payer_Name contains at least one of them,      *)
(* letter case aside, with the same keywords at state level and            *)
(* nationally: with no drug class given the result is the rows of the      *)
(* state whose Payer_Name contains a keyword, or, when there are none,     *)
(* the ALL rows whose Payer_Name contains a keyword.                       *)
(***************************************************************************)
C15_PayerFilterSemantics ==
  (PolicySearched /\ Truthy(call.payer)) =>
    LET HasKeyword(row) ==
          \E i \in 1..Len(PayerKeywords(call.payer)) :
             Contains(Lower(row.Payer_Name), Lower(PayerKeywords(call.payer)[i]))
        ofState  == SelectSeq(InState(call.db_b, call.state), HasKeyword)
        national == SelectSeq(InState(call.db_b, ALL), HasKeyword)
    IN  /\ \A k \in 1..Len(call.query) : HasKeyword(call.query[k])
        /\ ~Truthy(call.drug_class) =>
              call.query = IF ofState # <<>> THEN ofState ELSE national

(***************************************************************************)
(* Step therapy criteria: what the claims speak of.                        *)
(***************************************************************************)

\* a call of check_criteria_met has returned
CriteriaChecked == pc = "returned" /\ call.op = "check_criteria_met"

\* the requirement text of the call in lower case, '' for None
TextAsked ==
  IF call.step_requirements = NoneKey THEN <<>> ELSE Lower(call.step_requirements)

\* the prior medications of the call in lower case, [] for None
MedsGiven ==
  IF call.prior_medications = NoneList THEN <<>>
  ELSE [i \in 1..Len(call.prior_medications) |-> Lower(call.prior_medications[i])]

\* the call was given exactly these medications
GivenMeds(meds) == CriteriaChecked /\ call.prior_medications = meds

DigitChars == <<"1","2","3","4","5","6","7","8","9">>

\* the text states the number n in front of the phrase
States(n, phrase) == Contains(TextAsked, <<DigitChars[n]>> \o phrase)

\* the number of oral preventive classes with a drug among the medications
ClassesRepresented ==
  Cardinality({c \in {beta_blockers, anticonvulsants, antidepressants, ccbs} :
                 \E i \in 1..Len(MedsGiven) : AnyIn(c, MedsGiven[i])})

\* the returned tuples whose requirement label contains the phrase
TuplesAbout(phrase) ==
  {i \in 1..Len(call.ret) : Contains(Lower(call.ret[i].requirement), phrase)}

\* C16: when the requirement text asks for N oral preventive classes, the
\* oral preventive criterion is reported, and it is met iff the number of
\* distinct classes (beta-blocker, anticonvulsant, antidepressant, CCB)
\* among the prior medications is at least N, for every N the text states.
C16_OralPreventiveRule ==
  CriteriaChecked =>
    \A n \in 1..9 :
      States(n, <<" ","o","r","a","l"," ","p","r","e","v","e","n","t","i","v","e">>) =>
        /\ TuplesAbout(<<"o","r","a","l"," ","p","r","e","v","e","n","t","i","v","e">>) # {}
        /\ \A i \in TuplesAbout(<<"o","r","a","l"," ","p","r","e","v","e","n","t","i","v","e">>) :
             call.ret[i].met = (ClassesRepresented >= n)

\* the triptan names that are substrings of a prior medication
TriptansGiven ==
  {k \in 1..Len(triptans) : \E i \in 1..Len(MedsGiven) : Contains(MedsGiven[i], triptans[k])}

\* C17: when the requirement text asks for N triptans, the triptan
\* criterion is reported, and it is met iff at least N of the seven triptan
\* names occur in the prior medications, each name counted once.
C17_TriptanRule ==
  CriteriaChecked =>
    \A n \in 1..9 :
      States(n, <<" ","t","r","i","p","t","a","n">>) =>
        /\ TuplesAbout(<<"t","r","i","p","t","a","n">>) # {}
        /\ \A i \in TuplesAbout(<<"t","r","i","p","t","a","n">>) :
             call.ret[i].met = (Cardinality(TriptansGiven) >= n)

\* a prior medication contains the name
WasTried(name) == \E i \in 1..Len(MedsGiven) : Contains(MedsGiven[i], name)

VerapamilAndLithiumNames == {<<"v","e","r","a","p","a","m","i","l">>, <<"l","i","t","h","i","u","m">>}

\* C18: when the requirement text contains 'verapamil or lithium', one
\* verapamil/lithium criterion is reported; it is met iff a prior medication
\* contains 'verapamil' or 'lithium' in any case, and when it is met the
\* evidence names a medication that was tried and none that was not (with
\* only lithium given: lithium and not verapamil).
C18_VerapamilOrLithium ==
  (CriteriaChecked /\ Contains(TextAsked, <<"v","e","r","a","p","a","m","i","l"," ","o","r"," ","l","i","t","h","i","u","m">>)) =>
    /\ Cardinality(TuplesAbout(<<"l","i","t","h","i","u","m">>)) = 1
    /\ \A i \in TuplesAbout(<<"l","i","t","h","i","u","m">>) :
         /\ call.ret[i].met = (\E name \in VerapamilAndLithiumNames : WasTried(name))
         /\ call.ret[i].met =>
              /\ \E name \in VerapamilAndLithiumNames :
                   Contains(Lower(call.ret[i].details), name)
              /\ \A name \in VerapamilAndLithiumNames :
                   Contains(Lower(call.ret[i].details), name) => WasTried(name)

\* 'verapamil or lithium' asked, ['lithium 300mg'] given: met, and the
\* evidence names lithium
C18_Witness ==
  /\ GivenMeds(<<<<"l","i","t","h","i","u","m"," ","3","0","0","m","g">>>>)
  /\ Contains(TextAsked, <<"v","e","r","a","p","a","m","i","l"," ","o","r"," ","l","i","t","h","i","u","m">>)
  /\ Len(call.ret) = 1
  /\ call.ret[1].met
  /\ call.ret[1].details = <<"L","i","t","h","i","u","m"," ","t","r","i","a","l"," ","d","o","c","u","m","e","n","t","e","d">>

\* C19: when the requirement text contains 'verapamil and lithium', one
\* verapamil/lithium criterion is reported; it is met iff a verapamil and a
\* lithium prior medication both appear, and when it is not met the
\* evidence names exactly the missing ones; also when ' or ' stands
\* elsewhere in the text.
C19_VerapamilAndLithium ==
  (CriteriaChecked /\ Contains(TextAsked, <<"v","e","r","a","p","a","m","i","l"," ","a","n","d"," ","l","i","t","h","i","u","m">>)) =>
    /\ Cardinality(TuplesAbout(<<"l","i","t","h","i","u","m">>)) = 1
    /\ \A i \in TuplesAbout(<<"l","i","t","h","i","u","m">>) :
         /\ call.ret[i].met = (\A name \in VerapamilAndLithiumNames : WasTried(name))
         /\ ~call.ret[i].met =>
              \A name \in VerapamilAndLithiumNames :
                Contains(Lower(call.ret[i].details), name) <=> ~WasTried(name)

\* the rule family a returned tuple belongs to, by its requirement label
FamilyOf(tuple) ==
  IF Contains(Lower(tuple.requirement), <<"o","r","a","l"," ","p","r","e","v","e","n","t","i","v","e">>) THEN "oral-preventive"
  ELSE IF Contains(Lower(tuple.requirement), <<"t","r","i","p","t","a","n">>) THEN "triptan"
  ELSE IF Contains(Lower(tuple.requirement), <<"l","i","t","h","i","u","m">>) THEN "verapamil/lithium"
  ELSE "none"

\* the rule families present in the requirement text, in the order of the
\* checks: N oral preventive classes, N triptans, verapamil or/and lithium
FamiliesAsked ==
  (IF \E n \in 1..9 : States(n, <<" ","o","r","a","l"," ","p","r","e","v","e","n","t","i","v","e">>)
     THEN <<"oral-preventive">> ELSE <<>>)
  \o (IF \E n \in 1..9 : States(n, <<" ","t","r","i","p","t","a","n">>) THEN <<"triptan">> ELSE <<>>)
  \o (IF \/ Contains(TextAsked, <<"v","e","r","a","p","a","m","i","l"," ","o","r"," ","l","i","t","h","i","u","m">>)
         \/ Contains(TextAsked, <<"v","e","r","a","p","a","m","i","l"," ","a","n","d"," ","l","i","t","h","i","u","m">>)
        THEN <<"verapamil/lithium">> ELSE <<>>)

\* C20: the returned list holds exactly one tuple for each rule family
\* present in the requirement text and none for a family that is absent, in
\* the order oral-preventive, triptan, verapamil/lithium; it has at most
\* three tuples and is empty when no family is present or the text is empty
\* or None.
C20_OneTuplePerFamily ==
  CriteriaChecked =>
    /\ [i \in 1..Len(call.ret) |-> FamilyOf(call.ret[i])] = FamiliesAsked
    /\ Len(call.ret) <= 3
    /\ TextAsked = <<>> => call.ret = <<>>

(***************************************************************************)
(* C28.  The two fallback outputs of search_policies_with_fallback agree   *)
(* on every path: fallback_used is True iff fallback_message is a          *)
(* non-empty string, for every table, state, payer and drug class.         *)
(***************************************************************************)
C28_FallbackOutputsAgree ==
  PolicySearched => (call.fallback_used <=> call.fallback_message # <<>>)

\* the payer national fallback and a drug-class cascade both fire
C28_Witness ==
  /\ PolicySearched
  /\ Truthy(call.payer)
  /\ StateLevel = <<>>
  /\ National # <<>>
  /\ call.drug_class = Qulipta
  /\ WithClass(National, Qulipta) = <<>>
  /\ call.query # <<>>
  /\ call.query = WithClass(National, CGRPmAbs)
  /\ call.fallback_used
  /\ call.fallback_message # <<>>

(***************************************************************************)
(* C29.  State provenance: every returned row has State equal to the       *)
(* requested state or to ALL; the result never mixes rows of the requested *)
(* state with ALL rows; and when the requested state is not ALL, ALL rows  *)
(* are returned only with fallback_used = True.                            *)
(***************************************************************************)
C29_StateProvenance ==
  PolicySearched =>
    LET states == {call.query[k].State : k \in 1..Len(call.query)}
    IN  /\ states \subseteq {call.state, ALL}
        /\ Cardinality(states) <= 1
        /\ (call.state # ALL /\ ALL \in states) => call.fallback_used

\* rows of State ALL returned for a search of another state that has rows
\* of its own
C29_Witness ==
  /\ PolicySearched
  /\ call.state # ALL
  /\ InState(call.db_b, call.state) # <<>>
  /\ call.query # <<>>
  /\ \A k \in 1..Len(call.query) : call.query[k].State = ALL
  /\ call.fallback_used

(***************************************************************************)
(* C24.  Resolution is read-only: a call of find_medication,               *)
(* get_drug_class or search_multiple, with any input and threshold, leaves *)
(* medication_db, alias_to_key, generic_to_key and brand_to_key as they    *)
(* are; the dicts are therefore at every moment the ones built from the    *)
(* table, whatever calls were made before, and a result depends on the     *)
(* table, the input and the threshold only.                                *)
(***************************************************************************)
C24_ResolutionReadOnly ==
  /\ [][(pc = "idle" /\ pc' = "returned") => UNCHANGED matcher]_vars
  /\ [](\E built \in {_build_lookup_indices(medication_db)} :
          /\ alias_to_key = built.alias_to_key
          /\ generic_to_key = built.generic_to_key
          /\ brand_to_key = built.brand_to_key)

\* a fuzzy match returned by a matcher whose table was replaced before
C24_Witness ==
  /\ Found
  /\ medication_db = LeanDb
  /\ call.ret # None
  /\ call.ret.match_type \notin {"exact_brand", "exact_generic", "exact_alias"}

(***************************************************************************)
(* Collisions of the lookup dicts: what C23 speaks of.                     *)
(***************************************************************************)

\* the strings record n of the table registers in the dict of the field
RegisteredBy(n, field) ==
  IF field = "generic" THEN {Lower(medication_db[n].generic)}
  ELSE IF field = "brand" THEN {Lower(medication_db[n].brand)}
  ELSE {Lower(medication_db[n].aliases[i]) : i \in 1..Len(medication_db[n].aliases)}

\* the records that register the string, in the order of the table
Registering(string, field) ==
  {n \in 1..Len(medication_db) : string \in RegisteredBy(n, field)}

\* the dict of the field
DictOf(field) ==
  IF field = "generic" THEN generic_to_key
  ELSE IF field = "brand" THEN brand_to_key
  ELSE alias_to_key

\* the last key that registers each string has it
LastRegisteredWins ==
  \A field \in {"generic", "brand", "alias"} :
    \A n \in 1..Len(medication_db) : \A string \in RegisteredBy(n, field) :
      /\ DictHas(DictOf(field), string)
      /\ DictGet(DictOf(field), string)
           = medication_db[CHOOSE n2 \in Registering(string, field) :
                             \A o \in Registering(string, field) : o <= n2].key

\* C23: when two records with different keys register the same lower-cased
\* alias (or generic, or brand), the last one registered has the string, and
\* what the build leaves behind names both keys for it: the collision is not
\* silently overwritten.
C23_AliasCollisionDetected ==
  /\ LastRegisteredWins
  /\ \A field \in {"generic", "brand", "alias"} :
       \A m, n \in 1..Len(medication_db) :
         \A string \in RegisteredBy(m, field) \cap RegisteredBy(n, field) :
           medication_db[m].key # medication_db[n].key =>
             {medication_db[m].key, medication_db[n].key}
               \subseteq {DictOf(field)[p].v :
                            p \in {q \in 1..Len(DictOf(field)) : DictOf(field)[q].k = string}}

(***************************************************************************)
(* Step therapy columns: what C22 speaks of.                               *)
(***************************************************************************)

\* a consumer of a policy row has returned and has used the step therapy
\* columns (the PA texts use them when Step_Therapy_Required is Yes)
StepColumnsUsed ==
  /\ pc = "returned"
  /\ call.op \in {"get_step_therapy_details", "_generate_detailed", "_generate_compact"}
  /\ call.op # "get_step_therapy_details" => call.ret.required

\* the requirement and the duration the consumer took
StepTaken ==
  IF call.op = "get_step_therapy_details"
    THEN <<call.ret.requirement, call.ret.duration>>
    ELSE <<call.ret.step_req, call.ret.step_dur>>

\* C22: every consumer of a policy row takes the requirement and the
\* duration from Step_1_Requirement / Step_1_Duration when the row has that
\* pair, otherwise from the legacy Step_Therapy_Requirements /
\* Step_Therapy_Duration when the row has those, and uses a placeholder only
\* when it has neither.
C22_StepColumnFallback ==
  StepColumnsUsed =>
    IF {"Step_1_Requirement", "Step_1_Duration"} \subseteq DOMAIN call.row
      THEN StepTaken = <<call.row.Step_1_Requirement, call.row.Step_1_Duration>>
    ELSE IF {"Step_Therapy_Requirements", "Step_Therapy_Duration"} \subseteq DOMAIN call.row
      THEN StepTaken = <<call.row.Step_Therapy_Requirements, call.row.Step_Therapy_Duration>>
    ELSE TRUE

(***************************************************************************)
(* The session state manager.                                              *)
(***************************************************************************)

\* a call of the session state manager has returned without raising
Managed(op) == pc = "returned" /\ call.op = op /\ ~call.raised

\* the extraction fields of a dict that are null or absent
UnknownFields(dict) ==
  {field \in {"state", "age", "payer", "drug_class"} : RowGet(dict, field, None) = None}

\* C21: after set_from_ai_parse(parsed_data), every one of state, age, payer
\* and drug_class that the parser gave as null or left out is still null or
\* absent in st.session_state.parsed_data.
C21_NullFieldsStayUnknown ==
  Managed("set_from_ai_parse") =>
    UnknownFields(call.parsed_data) \subseteq UnknownFields(session_state["parsed_data"])

\* C25: initialize leaves every key that exists with its value (a
\* patient_context of None becomes a fresh PatientContext), creates every
\* missing key of DEFAULTS with its default, and changes nothing when called
\* again.
C25_InitializeRepeatable ==
  Managed("initialize") =>
    /\ \A key \in DOMAIN call.before :
          /\ key \in DOMAIN session_state
          /\ session_state[key] =
               IF key = "patient_context" /\ call.before[key] = None
                 THEN PatientContext ELSE call.before[key]
    /\ \A key \in DOMAIN DEFAULTS \ DOMAIN call.before :
          /\ key \in DOMAIN session_state
          /\ session_state[key] =
               IF key = "patient_context" THEN PatientContext ELSE DEFAULTS[key]
    /\ DOMAIN session_state = DOMAIN call.before \cup DOMAIN DEFAULTS
    /\ initialize(session_state) = session_state

\* initialize has run on a session that held a context with parsed values
\* and a patient_age of its own but no search keys
C25_Witness ==
  /\ Managed("initialize")
  /\ "patient_context" \in DOMAIN call.before
  /\ call.before["patient_context"] # PatientContext
  /\ "patient_age" \in DOMAIN call.before
  /\ call.before["patient_age"] # DEFAULTS["patient_age"]
  /\ "search_results" \notin DOMAIN call.before

\* C26: after an operation of the session state manager, the context's
\* headache_type equals its diagnosis.
C26_HeadacheTypeIsDiagnosis ==
  (pc = "returned" /\ ~call.raised /\ "patient_context" \in DOMAIN session_state) =>
    session_state["patient_context"]["headache_type"]
      = session_state["patient_context"]["diagnosis"]

(***************************************************************************)
(* The script's gate and the Paste Notes page.                             *)
(***************************************************************************)

\* the user has acknowledged the HIPAA notice
Acknowledged ==
  "hipaa_acknowledged" \in DOMAIN session_state /\ session_state["hipaa_acknowledged"]

\* the last run ended at the acknowledgment screen: nothing below it ran
StoppedAtGate ==
  /\ script # NoRun => script.modal
  /\ script.page = None
  /\ ~script.searched
  /\ ~script.parsed

\* st.session_state[key] holds nothing: the key is absent or its value is None
Empty(key) == key \in DOMAIN session_state => session_state[key] = None

\* C27 as stated: while hipaa_acknowledged is False every run stops at the
\* acknowledgment screen, rendering no page, searching and parsing nothing,
\* and search_results and parsed_data are not written.
C27_NothingWrittenBehindGate ==
  ~Acknowledged =>
    /\ StoppedAtGate
    /\ "search_results" \notin DOMAIN session_state
    /\ "parsed_data" \notin DOMAIN session_state

\* C27: while hipaa_acknowledged is False every run stops at the
\* acknowledgment screen, rendering no page, searching and parsing nothing,
\* and search_results and parsed_data hold nothing but the None that
\* initialize gives them before the gate; hipaa_acknowledged becomes True only
\* in the run of the acknowledge button, and is never False again afterwards.
C27_HipaaGate ==
  /\ [](~Acknowledged =>
          StoppedAtGate /\ Empty("search_results") /\ Empty("parsed_data"))
  /\ [][(~Acknowledged /\ Acknowledged') =>
          (script.modal /\ script'.event.widget = "acknowledge")]_vars
  /\ [][Acknowledged => Acknowledged']_vars

\* the script has run and stopped at the gate, with the default keys created
C27_Witness ==
  /\ ~Acknowledged
  /\ script.modal
  /\ script.page = None
  /\ "search_results" \in DOMAIN session_state
  /\ "parsed_data" \in DOMAIN session_state

\* the context and the legacy dict after set_from_ai_parse(B) alone on a
\* fresh session
FreshParse(B) == set_from_ai_parse(initialize(NoKeys), B).session

\* C30: after a note is parsed on the Paste Notes page, the patient context
\* and the legacy parsed_data are those that set_from_ai_parse of the
\* parser's output gives on a fresh session, whatever was parsed before.
C30_NoCarryOver ==
  (script.parsed /\ script.event.parsed_data \notin {None, NoKeys}) =>
    /\ session_state["patient_context"]
         = FreshParse(script.event.parsed_data)["patient_context"]
    /\ session_state["parsed_data"]
         = FreshParse(script.event.parsed_data)["parsed_data"]

=========================================================================
